---- MODULE Spec2Model ----
(***************************************************************************)
(* State-machine model of the God-Hand particle simulator:                 *)
(*   - GestureDetector  (pinch/open-flag based classifier with hysteresis) *)
(*   - HandTracker.processResults (per-frame snapshot publication)         *)
(*   - ParticleSystem.useFrame (mode transitions, explosion timer,         *)
(*     per-particle velocity update)                                       *)
(* Line numbers in comments refer to src/unnamed/part_002.                 *)
(*                                                                         *)
(* Number representation.  Lengths are fixed-point integers.  An           *)
(* inter-hand distance is carried by its SQUARE (field distSq, in units of *)
(* 1/Scale squared), so that the threshold comparisons of the classifier   *)
(* (d > 5, d < 18, d < 4) are exact without a square root.  Simulation     *)
(* time is counted in units of 1/TimeScale second.                         *)
(***************************************************************************)
EXTENDS Integers, Sequences, FiniteSets, TLC

VARIABLES
    \* ---- GestureDetector fields (lines 492-498)
    currentGesture,     \* committed gesture
    gestureStartTime,   \* time of the last commit
    pinchHistory,       \* last historySize frames <<leftPinched, rightPinched, distance>>
    pendingGesture,     \* candidate being counted
    pendingCount,       \* consecutive frames the candidate was detected
    \* ---- tracker (lines 617-626, 738-835) and store (src/store.ts)
    now,                \* performance.now() of the last tracking frame (frame clock)
    handData,           \* handDataRef.current, the single-slot snapshot
    leftFilter,         \* leftFilter.current.history (lines 449, 623)
    rightFilter,        \* rightFilter.current.history
    \* ---- ParticleSystem (lines 8-61)
    config,             \* the config of the component's last render (line 9)
    storeConfig,        \* the store's config (src/store.ts lines 37-39)
    effectDue,          \* the init effect (lines 34-61) is scheduled and has not run
    mounted,            \* pointsRef.current is set
    simState,           \* simState.current (lines 20-31)
    positions,          \* per particle <<x, y, z>>
    velocities,
    originalPositions,
    \* ---- observation
    frameLog,           \* one entry per tracking frame fed to the classifier
    ticks,              \* number of simulator ticks run
    lastTick,           \* what the last simulator tick read and found
    explosions,         \* the times at which explosionTime was assigned
    snapshotRead,       \* a tick has read the snapshot now in handDataRef
    changes,            \* number of setConfig calls made
    generatedFor,       \* the config the init effect last generated the arrays for
    rawLog,             \* per tracking frame, the raw position given to each filter
    generated,          \* the last generateParticles call: arguments, draws and result
    initialDistance     \* summed distance of the particles to rest when the init effect ended

detVars == <<currentGesture, gestureStartTime, pinchHistory, pendingGesture, pendingCount>>
filterVars == <<leftFilter, rightFilter, rawLog>>
particleVars == <<positions, velocities, originalPositions>>
reactVars == <<storeConfig, effectDue, changes, generatedFor>>
simVars == <<config, mounted, simState, positions, velocities, originalPositions,
             ticks, lastTick, explosions, storeConfig, effectDue, changes, generatedFor,
             generated, initialDistance>>
vars == <<currentGesture, gestureStartTime, pinchHistory, pendingGesture, pendingCount,
          now, handData, leftFilter, rightFilter, config, mounted, simState, positions, velocities,
          originalPositions, frameLog, ticks, lastTick, explosions, snapshotRead,
          storeConfig, effectDue, changes, generatedFor, rawLog, generated,
          initialDistance>>

----------------------------------------------------------------------------
(* Bounds of the model *)

\* number of tracking frames explored in the classifier specification
MaxFrames == 6
\* number of simulator ticks explored in the simulator specification
MaxTicks == 4
\* number of simulator ticks explored with a particle in the ensemble
MaxParticleTicks == 2
MaxSystemFrames == 6
MaxSystemTicks == 2
\* setConfig calls and simulator ticks explored in the reconfiguration specification
MaxConfigChanges == 2
MaxConfigTicks == 1
\* add and reset calls explored in the filter specification
MaxSamples == 7
\* tracking frames explored in the tracker specification
MaxTrackerFrames == 5
\* tracking frames explored in the candidate specification
MaxCandidateFrames == 4
\* largest particle count passed to the shape generator
MaxGenCount == 2
\* the relaxation specification: particles, simulator ticks and tracking frames
RelaxParticles == 2
MaxRelaxTicks == 6
MaxRelaxFrames == 3
\* the response specification: frames of any kind, then frames of the CIRCLE pose
MaxResponsePrefix == 4
MaxPoseFrames == 8
\* fixed-point resolution of particle coordinates: units per half world unit
Resolution == 1
\* largest force component (velocity increment per tick), in world units
MaxForce == 40

----------------------------------------------------------------------------
(* Program constants *)

\* fixed-point units per world unit: twice the lcm of the smoothing filter's weight sums
\* 1, 3, 6, 10, 15, so that weighted averages and midpoints of whole positions are exact
Scale == 2 * (2 * 3 * 5)
windowSize == 5              \* line 623: new SmoothingFilter(5)
historySize == 10            \* line 495
confirmationThreshold == 4   \* line 498
ReleaseWindow == 4           \* lines 509-510: slice(-4)
QuickExitCount == 2          \* line 597
CircleMin == 5               \* line 553
CircleMax == 18              \* line 553
CollapseMax == 4             \* line 557

\* time units per second: 1/60 s (a frame) and 0.05 s (the delta clamp) are whole units
TimeScale == 3 * 20
MaxDelta == TimeScale \div 20                 \* line 72: 0.05
ExplosionCooldown == (3 * TimeScale) \div 2   \* line 145: 1.5
ExplosionWindow == 2 * TimeScale              \* line 151: 2.0
InitialExplosionTime == -100 * TimeScale      \* line 21
\* velocity units per world unit, and the velocity clamp 2.5 (line 358) in those units
VelScale == 2 * Resolution
maxVel == 5 * Resolution
DefaultFriction == 960                        \* src/store.ts line 19: 0.96, in thousandths

Gestures == {"IDLE", "EXPAND", "COMPRESS", "CIRCLE", "COLLAPSE", "CONTROL"}

\* squared length of c world units, in fixed-point units
Sq(c) == c * c * Scale * Scale

----------------------------------------------------------------------------
(* Hands.  null is the record with present = FALSE. *)

NoHand == [present |-> FALSE, x |-> 0, y |-> 0, z |-> 0, isOpen |-> FALSE, isPinched |-> FALSE]

Hand(px, py, pz, open, pinched) ==
    [present |-> TRUE, x |-> px, y |-> py, z |-> pz, isOpen |-> open, isPinched |-> pinched]

OpenHand    == Hand(0, 0, 0, TRUE, FALSE)
PinchedHand == Hand(0, 0, 0, FALSE, TRUE)

\* left?.isPinched ?? false   (lines 533-536)
PinchedOf(h) == h.present /\ h.isPinched
OpenOf(h) == h.present /\ h.isOpen

----------------------------------------------------------------------------
(* GestureDetector *)

\* addFrame, lines 500-505
addFrame(hist, leftPinched, rightPinched, distSq) ==
    LET pushed == Append(hist, [leftPinched |-> leftPinched,
                                rightPinched |-> rightPinched,
                                distSq |-> distSq])
    IN  IF Len(pushed) > historySize THEN Tail(pushed) ELSE pushed

\* variant: the pinch is looked for five frames back instead of four
wasReleasedFiveBack(hist) ==
    IF Len(hist) < ReleaseWindow + 1 THEN FALSE
    ELSE LET first == hist[Len(hist) - ReleaseWindow]
             last  == hist[Len(hist)]
         IN  (first.leftPinched \/ first.rightPinched)
             /\ ~last.leftPinched /\ ~last.rightPinched

\* wasRecentlyReleased, lines 508-515 (on the history after addFrame)
wasRecentlyReleased(hist) ==
    IF Len(hist) < ReleaseWindow THEN FALSE
    ELSE LET first == hist[Len(hist) - ReleaseWindow + 1]
             last  == hist[Len(hist)]
             wasPinched  == first.leftPinched \/ first.rightPinched
             nowReleased == ~last.leftPinched /\ ~last.rightPinched
         IN  wasPinched /\ nowReleased

\* variant: two open hands inside the band are the CONTROL pose
DetectedControl(left, right, distSq, hist) ==
    LET leftPinched  == PinchedOf(left)
        rightPinched == PinchedOf(right)
        leftOpen     == OpenOf(left)
        rightOpen    == OpenOf(right)
        bothHands    == left.present /\ right.present
    IN  IF bothHands THEN
            IF leftPinched \/ rightPinched THEN "COMPRESS"
            ELSE IF leftOpen /\ rightOpen /\ wasRecentlyReleased(hist) THEN "EXPAND"
            ELSE IF leftOpen /\ rightOpen /\ distSq > Sq(CircleMin) /\ distSq < Sq(CircleMax)
                 THEN "CONTROL"
            ELSE IF distSq < Sq(CollapseMax) THEN "COLLAPSE"
            ELSE "IDLE"
        ELSE IF left.present \/ right.present THEN
            LET hand == IF left.present THEN left ELSE right
            IN  IF hand.isPinched THEN "COMPRESS" ELSE "IDLE"
        ELSE "IDLE"

\* variant: the band test comes before the release test
DetectedCircleFirst(left, right, distSq, hist) ==
    LET leftPinched  == PinchedOf(left)
        rightPinched == PinchedOf(right)
        leftOpen     == OpenOf(left)
        rightOpen    == OpenOf(right)
        bothHands    == left.present /\ right.present
    IN  IF bothHands THEN
            IF leftPinched \/ rightPinched THEN "COMPRESS"
            ELSE IF leftOpen /\ rightOpen /\ distSq > Sq(CircleMin) /\ distSq < Sq(CircleMax)
                 THEN "CIRCLE"
            ELSE IF leftOpen /\ rightOpen /\ wasRecentlyReleased(hist) THEN "EXPAND"
            ELSE IF distSq < Sq(CollapseMax) THEN "COLLAPSE"
            ELSE "IDLE"
        ELSE IF left.present \/ right.present THEN
            LET hand == IF left.present THEN left ELSE right
            IN  IF hand.isPinched THEN "COMPRESS" ELSE "IDLE"
        ELSE "IDLE"

\* the per-frame candidate, lines 541-568 (hist is the history after addFrame)
DetectedGesture(left, right, distSq, hist) ==
    LET leftPinched  == PinchedOf(left)
        rightPinched == PinchedOf(right)
        leftOpen     == OpenOf(left)
        rightOpen    == OpenOf(right)
        bothHands    == left.present /\ right.present
    IN  IF bothHands THEN
            IF leftPinched \/ rightPinched THEN "COMPRESS"
            ELSE IF leftOpen /\ rightOpen /\ wasRecentlyReleased(hist) THEN "EXPAND"
            ELSE IF leftOpen /\ rightOpen /\ distSq > Sq(CircleMin) /\ distSq < Sq(CircleMax)
                 THEN "CIRCLE"
            ELSE IF distSq < Sq(CollapseMax) THEN "COLLAPSE"
            ELSE "IDLE"
        ELSE IF left.present \/ right.present THEN
            LET hand == IF left.present THEN left ELSE right
            IN  IF hand.isPinched THEN "COMPRESS" ELSE "IDLE"
        ELSE "IDLE"

\* hysteresis counter, lines 570-576
PendingAfter(detected) ==
    IF detected = pendingGesture
    THEN [gesture |-> pendingGesture, count |-> pendingCount + 1]
    ELSE [gesture |-> detected, count |-> 1]

\* variant: confirmation needs more than confirmationThreshold frames
CommitsLateThreshold(detected, pend, leftPinched, rightPinched) ==
    IF detected = "COMPRESS" \/ detected = "COLLAPSE" THEN TRUE
    ELSE IF detected = "EXPAND" THEN TRUE
    ELSE IF pend.count > confirmationThreshold THEN currentGesture # pend.gesture
    ELSE IF currentGesture = "COMPRESS" /\ ~leftPinched /\ ~rightPinched
         THEN pend.count >= QuickExitCount
    ELSE FALSE

\* variant: no hysteresis, every candidate commits on its first frame
CommitsWithoutConfirmation(detected, pend, leftPinched, rightPinched) ==
    IF detected = "COMPRESS" \/ detected = "COLLAPSE" THEN TRUE
    ELSE IF detected = "EXPAND" THEN TRUE
    ELSE currentGesture # pend.gesture

\* variant: EXPAND goes through confirmation like CIRCLE and IDLE
CommitsExpandConfirmed(detected, pend, leftPinched, rightPinched) ==
    IF detected = "COMPRESS" \/ detected = "COLLAPSE" THEN TRUE
    ELSE IF pend.count >= confirmationThreshold THEN currentGesture # pend.gesture
    ELSE IF currentGesture = "COMPRESS" /\ ~leftPinched /\ ~rightPinched
         THEN pend.count >= QuickExitCount
    ELSE FALSE

\* does this frame commit (assign currentGesture and gestureStartTime)?  lines 578-601
Commits(detected, pend, leftPinched, rightPinched) ==
    IF detected = "COMPRESS" \/ detected = "COLLAPSE" THEN TRUE
    ELSE IF detected = "EXPAND" THEN TRUE
    ELSE IF pend.count >= confirmationThreshold THEN currentGesture # pend.gesture
    ELSE IF currentGesture = "COMPRESS" /\ ~leftPinched /\ ~rightPinched
         THEN pend.count >= QuickExitCount
    ELSE FALSE

\* the gesture committed by a committing frame, lines 580, 585, 591, 598
CommittedGesture(detected, pend) ==
    IF detected \in {"COMPRESS", "COLLAPSE", "EXPAND"} THEN detected ELSE pend.gesture

\* detectGesture, lines 527-604; the returned value is currentGesture'
detectGesture(left, right, distSq, time) ==
    LET hist     == addFrame(pinchHistory, PinchedOf(left), PinchedOf(right), distSq)
        detected == DetectedGesture(left, right, distSq, hist)
        pend     == PendingAfter(detected)
        commit   == Commits(detected, pend, PinchedOf(left), PinchedOf(right))
    IN  /\ pinchHistory' = hist
        /\ pendingGesture' = pend.gesture
        /\ pendingCount' = pend.count
        /\ currentGesture' = IF commit THEN CommittedGesture(detected, pend) ELSE currentGesture
        /\ gestureStartTime' = IF commit THEN time ELSE gestureStartTime

\* variant: a reset that keeps the pinch window
resetKeepsWindow ==
    /\ currentGesture' = "IDLE"
    /\ pendingCount' = 0
    /\ pendingGesture' = "IDLE"
    /\ UNCHANGED <<pinchHistory, gestureStartTime>>

\* reset, lines 606-611 (gestureStartTime is not touched)
reset ==
    /\ currentGesture' = "IDLE"
    /\ pinchHistory' = <<>>
    /\ pendingCount' = 0
    /\ pendingGesture' = "IDLE"
    /\ UNCHANGED gestureStartTime

----------------------------------------------------------------------------
(* Initial state: freshly constructed objects *)

initialHandData ==
    [left |-> NoHand, right |-> NoHand, distSq |-> 0,
     centerX |-> 0, centerY |-> 0, centerZ |-> 0, rotation |-> 0, gesture |-> "IDLE"]

initialSimState ==
    [explosionTime |-> InitialExplosionTime, planetMode |-> FALSE, time |-> 0,
     targetScale |-> 1000, currentScale |-> 1000,
     targetRotationY |-> 0, currentRotationY |-> 0,
     targetRotationZ |-> 0, currentRotationZ |-> 0]

NoTick == [gesture |-> "NONE", planetBefore |-> FALSE, explosionBefore |-> InitialExplosionTime,
           time |-> 0, delta |-> 0, isExploding |-> FALSE]

\* DEFAULT_CONFIG, src/store.ts lines 14-22, with a particle count of n
DefaultConfig(n) ==
    [count |-> n, shape |-> "Sphere", friction |-> DefaultFriction,
     color |-> "#00ffff", size |-> 50]

\* generateParticles has not been called
NoCall == [type |-> "NONE", count |-> 0, draws |-> <<>>, returned |-> FALSE,
           samplers |-> <<>>, positions |-> <<>>]

\* nothing generated yet
NoConfig == [count |-> -1, shape |-> "NONE", friction |-> 0, color |-> "NONE", size |-> 0]

\* the state after construction, for an ensemble of n particles, but for the
\* generator's call
Constructed(n) ==
    /\ currentGesture = "IDLE"
    /\ gestureStartTime = 0
    /\ pinchHistory = <<>>
    /\ pendingGesture = "IDLE"
    /\ pendingCount = 0
    /\ now = 0
    /\ handData = initialHandData
    /\ leftFilter = <<>>
    /\ rightFilter = <<>>
    /\ config = DefaultConfig(n)
    /\ storeConfig = DefaultConfig(n)
    /\ effectDue = FALSE
    /\ changes = 0
    /\ generatedFor = NoConfig
    /\ rawLog = <<>>
    /\ initialDistance = 0
    /\ mounted = FALSE
    /\ simState = initialSimState
    /\ positions = [i \in 1..n |-> <<0, 0, 0>>]
    /\ velocities = [i \in 1..n |-> <<0, 0, 0>>]
    /\ originalPositions = [i \in 1..n |-> <<0, 0, 0>>]
    /\ frameLog = <<>>
    /\ ticks = 0
    /\ lastTick = NoTick
    /\ explosions = <<>>
    /\ snapshotRead = FALSE

InitWith(n) == Constructed(n) /\ generated = NoCall

Init == InitWith(0)

----------------------------------------------------------------------------
(* Classifier specification: the classifier driven frame by frame, as      *)
(* processResults drives it (detectGesture when a hand is present, reset   *)
(* when none is), with hand flags and distance drawn from DetectorInputs.  *)

DetectorInputs ==
    { [left |-> OpenHand,    right |-> OpenHand,    distSq |-> Sq(10)],
      [left |-> OpenHand,    right |-> OpenHand,    distSq |-> Sq(2)],
      [left |-> OpenHand,    right |-> OpenHand,    distSq |-> Sq(18)],
      [left |-> PinchedHand, right |-> OpenHand,    distSq |-> Sq(10)],
      [left |-> NoHand,      right |-> PinchedHand, distSq |-> 0],
      [left |-> OpenHand,    right |-> NoHand,      distSq |-> 0] }

LogEntry(in, cand, ret) ==
    [left |-> in.left, right |-> in.right, distSq |-> in.distSq, cand |-> cand, ret |-> ret,
     prev |-> currentGesture, prevCount |-> pendingCount, start |-> gestureStartTime',
     time |-> now']

\* one tracking frame with at least one hand: lines 822-828
DetectFrame ==
    /\ now < MaxFrames
    /\ \E in \in DetectorInputs :
        /\ now' = now + 1
        /\ detectGesture(in.left, in.right, in.distSq, now')
        /\ frameLog' = Append(frameLog,
               LogEntry(in, DetectedGesture(in.left, in.right, in.distSq, pinchHistory'),
                        currentGesture'))
    /\ UNCHANGED <<handData, snapshotRead>>
    /\ UNCHANGED filterVars
    /\ UNCHANGED simVars

\* one tracking frame with no hands: lines 829-833
ResetFrame ==
    /\ now < MaxFrames
    /\ now' = now + 1
    /\ reset
    /\ frameLog' = Append(frameLog,
           LogEntry([left |-> NoHand, right |-> NoHand, distSq |-> 0], "NONE", "IDLE"))
    /\ UNCHANGED <<handData, snapshotRead>>
    /\ UNCHANGED filterVars
    /\ UNCHANGED simVars

NextDetector == DetectFrame \/ ResetFrame

SpecDetector == Init /\ [][NextDetector]_vars

----------------------------------------------------------------------------
(* Candidate specification: the classifier driven frame by frame on every  *)
(* kind of hand (open, pinched, neither, both flags) and on distances at   *)
(* and around the thresholds.                                               *)

FistHand == Hand(0, 0, 0, FALSE, FALSE)
OpenPinchedHand == Hand(0, 0, 0, TRUE, TRUE)

CandidateInputs ==
    { [left |-> OpenHand,    right |-> OpenHand,        distSq |-> Sq(10)],
      [left |-> OpenHand,    right |-> OpenHand,        distSq |-> Sq(2)],
      [left |-> OpenHand,    right |-> OpenHand,        distSq |-> Sq(CollapseMax)],
      [left |-> OpenHand,    right |-> OpenHand,        distSq |-> Sq(CircleMin)],
      [left |-> OpenHand,    right |-> OpenHand,        distSq |-> Sq(CircleMax)],
      [left |-> PinchedHand, right |-> OpenHand,        distSq |-> Sq(10)],
      [left |-> OpenHand,    right |-> OpenPinchedHand, distSq |-> Sq(2)],
      [left |-> FistHand,    right |-> OpenHand,        distSq |-> Sq(10)],
      [left |-> FistHand,    right |-> FistHand,        distSq |-> Sq(2)],
      [left |-> NoHand,      right |-> PinchedHand,     distSq |-> 0],
      [left |-> OpenHand,    right |-> NoHand,          distSq |-> 0],
      [left |-> NoHand,      right |-> FistHand,        distSq |-> 0] }

\* one tracking frame with at least one hand: lines 822-828
CandidateFrame ==
    /\ now < MaxCandidateFrames
    /\ \E in \in CandidateInputs :
        /\ now' = now + 1
        /\ detectGesture(in.left, in.right, in.distSq, now')
        /\ frameLog' = Append(frameLog,
               LogEntry(in, DetectedGesture(in.left, in.right, in.distSq, pinchHistory'),
                        currentGesture'))
    /\ UNCHANGED <<handData, snapshotRead>>
    /\ UNCHANGED filterVars
    /\ UNCHANGED simVars

\* one tracking frame with no hands: lines 829-833
CandidateReset ==
    /\ now < MaxCandidateFrames
    /\ ResetFrame

NextCandidate == CandidateFrame \/ CandidateReset

SpecCandidate == Init /\ [][NextCandidate]_vars

----------------------------------------------------------------------------
(* ParticleSystem.useFrame: mode state (lines 64-151) *)

Min(a, b) == IF a < b THEN a ELSE b
Max(a, b) == IF a > b THEN a ELSE b
Abs(a) == IF a < 0 THEN -a ELSE a
Sign(a) == IF a > 0 THEN 1 ELSE IF a < 0 THEN -1 ELSE 0

\* Math.sqrt of a squared length, rounded down to a whole fixed-point unit
Sqrt(sq) == CHOOSE r \in 0..(40 * Scale) : r * r <= sq /\ (r + 1) * (r + 1) > sq

\* line 72
clampedDelta(delta) == Min(delta, MaxDelta)

\* target transforms under CONTROL, lines 75-92 (scale in thousandths, angles in
\* thousandths of pi; the snapshot's rotation is in degrees)
ControlTargets(s, d) ==
    LET dist        == Sqrt(d.distSq)
        scaleFactor == 400 + ((dist - 5 * Scale) * 2200) \div (15 * Scale)
        deadzone    == (3 * Scale) \div 2
        rotY        == IF Abs(d.centerX) > deadzone
                       THEN ((d.centerX - Sign(d.centerX) * deadzone) * 1000) \div (12 * Scale)
                       ELSE 0
    IN  [s EXCEPT !.targetScale = Max(300, Min(3000, scaleFactor)),
                  !.targetRotationY = Max(-1000, Min(1000, rotY)),
                  !.targetRotationZ = (d.rotation * 1000 * 8) \div (180 * 10)]

\* smooth interpolation, lines 94-100: controlLerp = clampedDelta * 4 * (1.5 or 0.5)
Lerped(s, gesture, cd) ==
    LET num == IF gesture = "CONTROL" THEN 6 * cd ELSE 2 * cd
        step(cur, tgt) == cur + ((tgt - cur) * num) \div TimeScale
    IN  [s EXCEPT !.currentScale = step(s.currentScale, s.targetScale),
                  !.currentRotationY = step(s.currentRotationY, s.targetRotationY),
                  !.currentRotationZ = step(s.currentRotationZ, s.targetRotationZ)]

\* variant: the trigger without the cooldown
ExplosionTriggersNoCooldown(gesture, time, explosionTime) == gesture = "COLLAPSE"

\* variant: the cooldown as long as the explosion window
ExplosionTriggersAfterWindow(gesture, time, explosionTime) ==
    gesture = "COLLAPSE" /\ time - explosionTime > ExplosionWindow

\* line 145: the explosion trigger
ExplosionTriggers(gesture, time, explosionTime) ==
    gesture = "COLLAPSE" /\ time - explosionTime > ExplosionCooldown

\* variant: every gesture other than CIRCLE leaves planet mode
PlanetModeAfterAnyExit(gesture, planetMode, triggered) ==
    IF triggered THEN FALSE ELSE gesture = "CIRCLE"

\* variant: only EXPAND leaves planet mode
PlanetModeAfterExpandOnly(gesture, planetMode, triggered) ==
    IF triggered THEN FALSE
    ELSE IF gesture = "CIRCLE" THEN TRUE
    ELSE IF gesture = "EXPAND" THEN FALSE
    ELSE planetMode

\* planetMode after the mode transitions of a tick, lines 125-148
PlanetModeAfter(gesture, planetMode, triggered) ==
    LET entered == IF gesture = "CIRCLE" /\ ~planetMode THEN TRUE ELSE planetMode
        left    == IF gesture # "CIRCLE" /\ entered /\ (gesture = "EXPAND" \/ gesture = "COMPRESS")
                   THEN FALSE ELSE entered
    IN  IF triggered THEN FALSE ELSE left

\* variant: the explosion is in progress from the trigger tick itself
isExplodingFromTrigger(time, explosionTime) ==
    LET explosionAge == time - explosionTime
    IN  explosionAge < ExplosionWindow /\ explosionAge >= 0

\* lines 150-151
isExploding(time, explosionTime) ==
    LET explosionAge == time - explosionTime
    IN  explosionAge < ExplosionWindow /\ explosionAge > 0

\* simState after the mode part of a tick with frame time delta, snapshot d
ModeStep(s, d, delta) ==
    LET timed     == [s EXCEPT !.time = s.time + delta]
        targeted  == IF d.gesture = "CONTROL" THEN ControlTargets(timed, d) ELSE timed
        lerped    == Lerped(targeted, d.gesture, clampedDelta(delta))
        triggered == ExplosionTriggers(d.gesture, lerped.time, lerped.explosionTime)
    IN  [lerped EXCEPT
            !.planetMode = PlanetModeAfter(d.gesture, lerped.planetMode, triggered),
            !.explosionTime = IF triggered THEN lerped.time ELSE lerped.explosionTime]

----------------------------------------------------------------------------
(* ParticleSystem.useFrame: the particle loop (lines 153-379).             *)
(* Coordinates and velocities are fixed-point, VelScale units per world    *)
(* unit, and every product is rounded to the nearest unit as the floating- *)
(* point operations round to the nearest representable value.  The force   *)
(* formulas (square roots, sines, Math.random) are not computed: a force   *)
(* term that the code applies is an arbitrary increment from ForceChoices, *)
(* a term it does not apply, or that is zero by its formula, is zero.      *)
(* planetCenter and the world-to-local transform only feed those formulas. *)

Zero == <<0, 0, 0>>
VAdd(a, b) == <<a[1] + b[1], a[2] + b[2], a[3] + b[3]>>
MagSq(v) == v[1] * v[1] + v[2] * v[2] + v[3] * v[3]

\* nearest integer to num / den, den > 0
RoundDiv(num, den) ==
    IF num >= 0 THEN (2 * num + den) \div (2 * den)
    ELSE -((2 * (-num) + den) \div (2 * den))

\* 1. damping, lines 175-177 (friction in thousandths)
Damped(v, friction) ==
    <<RoundDiv(v[1] * friction, 1000), RoundDiv(v[2] * friction, 1000),
      RoundDiv(v[3] * friction, 1000)>>

ForceUnit == MaxForce * VelScale
ForceChoices == {Zero, <<ForceUnit, ForceUnit, 0>>, <<-ForceUnit, 3, ForceUnit>>}

\* variant: shape holding goes on in planet mode
ShapeHoldsInPlanetMode(s, gesture, exploding) == ~exploding /\ gesture = "IDLE"

\* 2. shape holding, lines 180-187: (rest - pos) * returnForce * 0.6
ShapeHolds(s, gesture, exploding) == ~s.planetMode /\ ~exploding /\ gesture = "IDLE"

\* variant: the shape-holding term applied even to a particle at its rest position
ShapeTermsAtRest(s, gesture, exploding, pos, rest) ==
    IF ShapeHolds(s, gesture, exploding) THEN ForceChoices ELSE {Zero}

ShapeTerms(s, gesture, exploding, pos, rest) ==
    IF ShapeHolds(s, gesture, exploding) /\ pos # rest THEN ForceChoices ELSE {Zero}

\* variant: the compress pull applied whenever the gesture is COMPRESS
RegimeCompressUnpinched(s, d) ==
    IF s.planetMode /\ d.gesture = "CIRCLE" THEN "PLANET"
    ELSE IF d.gesture = "COMPRESS" THEN "COMPRESS"
    ELSE IF d.gesture = "EXPAND" THEN "EXPAND"
    ELSE IF d.gesture = "IDLE" THEN "HANDFIELD"
    ELSE "NONE"

\* 3.-6. the primary regime, lines 190, 265, 278, 295
Regime(s, d) ==
    LET anyPinched == PinchedOf(d.left) \/ PinchedOf(d.right)
    IN  IF s.planetMode /\ d.gesture = "CIRCLE" THEN "PLANET"
        ELSE IF d.gesture = "COMPRESS" /\ anyPinched THEN "COMPRESS"
        ELSE IF d.gesture = "EXPAND" THEN "EXPAND"
        ELSE IF d.gesture = "IDLE" THEN "HANDFIELD"
        ELSE "NONE"

RegimeTerms(s, d) ==
    LET r == Regime(s, d)
    IN  IF r \in {"PLANET", "COMPRESS", "EXPAND"} THEN ForceChoices
        ELSE IF r = "HANDFIELD" /\ (d.left.present \/ d.right.present) THEN ForceChoices
        ELSE {Zero}

\* 7. explosion, lines 333-355: a blast for particles inside the wave band
ExplosionTerms(exploding) == IF exploding THEN ForceChoices ELSE {Zero}

\* v * (maxVel / velMag), rounded to the nearest unit
Rescaled(a, magSq) ==
    LET n == CHOOSE k \in 0..maxVel :
                 /\ (k = 0 \/ (2 * k - 1) * (2 * k - 1) * magSq <= 4 * a * a * maxVel * maxVel)
                 /\ 4 * a * a * maxVel * maxVel < (2 * k + 1) * (2 * k + 1) * magSq
    IN  Sign(a) * n

\* variant: no clamping
Unclamped(v) == v

\* velocity clamping, lines 357-365
Clamped(v) ==
    IF MagSq(v) > maxVel * maxVel
    THEN <<Rescaled(v[1], MagSq(v)), Rescaled(v[2], MagSq(v)), Rescaled(v[3], MagSq(v))>>
    ELSE v

\* the velocity of one particle after a tick, given the force terms applied
NewVelocity(v, friction, shape, regime, blast) ==
    Clamped(VAdd(VAdd(VAdd(Damped(v, friction), shape), regime), blast))

----------------------------------------------------------------------------
(* The simulator tick *)

TickRecord(d, s, delta, s2) ==
    [gesture |-> d.gesture, planetBefore |-> s.planetMode,
     explosionBefore |-> s.explosionTime, time |-> s2.time, delta |-> delta,
     isExploding |-> isExploding(s2.time, s2.explosionTime)]

\* useFrame callback, lines 64-382, with frame time delta
useFrame(delta) ==
    /\ mounted                                   \* line 65
    /\ LET d  == handData                        \* line 67: one read of the slot
           s2 == ModeStep(simState, d, delta)
           exploding == isExploding(s2.time, s2.explosionTime)
           n  == config.count
       IN  /\ simState' = s2
           /\ \E shape \in [1..n -> ForceChoices] :
                 /\ \A i \in 1..n :
                       shape[i] \in ShapeTerms(s2, d.gesture, exploding,
                                               positions[i], originalPositions[i])
                 /\ \E regime \in [1..n -> ForceChoices] :
                       /\ \A i \in 1..n : regime[i] \in RegimeTerms(s2, d)
                       /\ \E blast \in [1..n -> ForceChoices] :
                             /\ \A i \in 1..n : blast[i] \in ExplosionTerms(exploding)
                             /\ velocities' = [i \in 1..n |->
                                   NewVelocity(velocities[i], config.friction,
                                               shape[i], regime[i], blast[i])]
                             /\ positions' = [i \in 1..n |->
                                   VAdd(positions[i], velocities'[i])]
           /\ lastTick' = TickRecord(d, simState, delta, s2)
           /\ explosions' = IF s2.explosionTime # simState.explosionTime
                            THEN Append(explosions, s2.explosionTime) ELSE explosions
    /\ ticks' = ticks + 1
    /\ snapshotRead' = TRUE
    /\ UNCHANGED <<config, mounted, originalPositions, handData, now, frameLog>>
    /\ UNCHANGED reactVars
    /\ UNCHANGED initialDistance
    /\ UNCHANGED filterVars
    /\ UNCHANGED detVars
    /\ UNCHANGED generated

\* distance between two points, rounded down to a whole fixed-point unit
Distance(a, b) ==
    Sqrt(MagSq(<<a[1] - b[1], a[2] - b[2], a[3] - b[3]>>))

\* the particles' distances to their rest positions, summed
RECURSIVE DistanceUpTo(_, _, _)
DistanceUpTo(pos, rest, n) ==
    IF n = 0 THEN 0 ELSE DistanceUpTo(pos, rest, n - 1) + Distance(pos[n], rest[n])

TotalDistance(pos, rest) == DistanceUpTo(pos, rest, Len(pos))

\* rest positions the shape generator may return, and the initial velocity jitter
ShapePoints == {Zero, <<4 * VelScale, 0, -2 * VelScale>>}
\* (Math.random() - 0.5) * 0.1 per component: at most 0.05 in size, rounded down
Jitter == VelScale \div 20
Jitters == {Zero, <<Jitter, 0, -Jitter>>}

\* mounting: pointsRef is attached and the init effect (lines 34-61) fills the arrays
Mount ==
    /\ ~mounted
    /\ mounted' = TRUE
    /\ \E rest \in [1..config.count -> ShapePoints], jit \in [1..config.count -> Jitters] :
          /\ positions' = rest
          /\ originalPositions' = rest
          /\ velocities' = jit
    /\ initialDistance' = TotalDistance(positions', originalPositions')
    /\ UNCHANGED <<config, simState, handData, now, frameLog, ticks, lastTick, explosions,
                   snapshotRead>>
    /\ generatedFor' = config
    /\ UNCHANGED <<storeConfig, effectDue, changes>>
    /\ UNCHANGED filterVars
    /\ UNCHANGED detVars
    /\ UNCHANGED generated

----------------------------------------------------------------------------
(* Simulator specification: the simulator ticking over snapshots that the  *)
(* tracker publishes into the slot between ticks.                          *)

\* frame times: 1/60 s, and stalled frames of 1.5 s (the cooldown exactly) and 1.6 s
Deltas == {1, ExplosionCooldown, (8 * TimeScale) \div 5}

Snapshot(l, r, g) ==
    [left |-> l, right |-> r,
     distSq |-> IF l.present /\ r.present THEN Sq(10) ELSE 0,
     centerX |-> 0, centerY |-> 0, centerZ |-> 0, rotation |-> 0, gesture |-> g]

\* snapshots offered to the simulator: no hands publishes IDLE (lines 829-835);
\* COMPRESS is first committed by a pinched hand
SimSnapshots ==
    {Snapshot(NoHand, NoHand, "IDLE")}
    \cup {Snapshot(OpenHand, OpenHand, g) : g \in Gestures}
    \cup {Snapshot(PinchedHand, OpenHand, "COMPRESS")}

\* line 835: handDataRef.current = data
PublishSnapshot ==
    /\ \E d \in SimSnapshots : handData' = d
    /\ handData' # handData
    /\ snapshotRead' = FALSE
    /\ UNCHANGED <<now, frameLog>>
    /\ UNCHANGED filterVars
    /\ UNCHANGED detVars
    /\ UNCHANGED simVars

Tick == ticks < MaxTicks /\ \E delta \in Deltas : useFrame(delta)

NextSim == Mount \/ PublishSnapshot \/ Tick

SpecSim == Init /\ [][NextSim]_vars

----------------------------------------------------------------------------
(* Particle specification: the simulator with an ensemble of one particle. *)

InitParticle == InitWith(1)

\* frame times of the particle specification: 1/60 s and a stalled frame of 1.6 s
ParticleDeltas == {1, (8 * TimeScale) \div 5}

ParticleTick == ticks < MaxParticleTicks /\ \E delta \in ParticleDeltas : useFrame(delta)

NextParticle == Mount \/ PublishSnapshot \/ ParticleTick

SpecParticle == InitParticle /\ [][NextParticle]_vars

----------------------------------------------------------------------------
(* Reconfiguration: the store's setConfig, the component's re-render and   *)
(* its init effect as separate steps, with simulator ticks between them.   *)
(* A render and its commit are one step: the buffers of the new render and *)
(* the new useFrame callback become visible together, at the commit.       *)

\* variant: a buffer memoised without its dependency on count
BufferKept(prev, n, first, prevCount) ==
    IF first THEN [i \in 1..n |-> Zero] ELSE prev

\* useMemo(() => new Float32Array(count * 3), [count]), lines 14-16
Buffer(prev, n, first, prevCount) ==
    IF first \/ n # prevCount THEN [i \in 1..n |-> Zero] ELSE prev

\* setConfig arguments
Partials ==
    { [count |-> 2], [count |-> 1], [shape |-> "Cube"], [friction |-> 900],
      [color |-> "#ff00ff"], [size |-> 80] }

\* setConfig, src/store.ts lines 38-39: { ...state.config, ...partial }
setConfig(partial) ==
    /\ storeConfig' = [k \in DOMAIN storeConfig |->
                          IF k \in DOMAIN partial THEN partial[k] ELSE storeConfig[k]]
    /\ changes' = changes + 1
    /\ UNCHANGED initialDistance
    /\ UNCHANGED <<config, effectDue, generatedFor, mounted, simState, ticks, lastTick,
                   explosions, handData, now, frameLog, snapshotRead>>
    /\ UNCHANGED particleVars
    /\ UNCHANGED filterVars
    /\ UNCHANGED detVars
    /\ UNCHANGED generated

\* do the dependencies of the init effect differ between two renders?  line 61
\* (the four buffers are replaced exactly when count changes)
EffectDepsChanged(old, new) ==
    new.shape # old.shape \/ new.count # old.count \/ new.color # old.color

\* a render of ParticleSystem with the store's config, and its commit (lines 8-17, 427)
Render ==
    /\ ~effectDue
    /\ ~mounted \/ config # storeConfig
    /\ config' = storeConfig
    /\ mounted' = TRUE
    /\ positions' = Buffer(positions, storeConfig.count, ~mounted, config.count)
    /\ velocities' = Buffer(velocities, storeConfig.count, ~mounted, config.count)
    /\ originalPositions' = Buffer(originalPositions, storeConfig.count, ~mounted, config.count)
    /\ effectDue' = (~mounted \/ EffectDepsChanged(config, storeConfig))
    /\ UNCHANGED initialDistance
    /\ UNCHANGED <<storeConfig, changes, generatedFor, simState, ticks, lastTick,
                   explosions, handData, now, frameLog, snapshotRead>>
    /\ UNCHANGED filterVars
    /\ UNCHANGED detVars
    /\ UNCHANGED generated

\* the init effect, lines 34-61
InitEffect ==
    /\ effectDue
    /\ effectDue' = FALSE
    /\ \E rest \in [1..config.count -> ShapePoints], jit \in [1..config.count -> Jitters] :
          /\ positions' = rest
          /\ originalPositions' = rest
          /\ velocities' = jit
    /\ initialDistance' = TotalDistance(positions', originalPositions')
    /\ generatedFor' = config
    /\ UNCHANGED <<config, storeConfig, changes, mounted, simState, ticks, lastTick,
                   explosions, handData, now, frameLog, snapshotRead>>
    /\ UNCHANGED filterVars
    /\ UNCHANGED detVars
    /\ UNCHANGED generated

SetConfig == changes < MaxConfigChanges /\ \E partial \in Partials : setConfig(partial)

ConfigTick == ticks < MaxConfigTicks /\ \E delta \in ParticleDeltas : useFrame(delta)

\* the tracker publishing, between reconfigurations, the snapshot of an EXPAND frame
ConfigPublish ==
    /\ handData' = Snapshot(OpenHand, OpenHand, "EXPAND")
    /\ handData' # handData
    /\ snapshotRead' = FALSE
    /\ UNCHANGED <<now, frameLog>>
    /\ UNCHANGED filterVars
    /\ UNCHANGED detVars
    /\ UNCHANGED simVars

NextConfig == SetConfig \/ Render \/ InitEffect \/ ConfigPublish \/ ConfigTick

SpecConfig == InitParticle /\ [][NextConfig]_vars

----------------------------------------------------------------------------
(* SmoothingFilter (lines 448-488) and HandTracker.processResults          *)
(* (lines 738-835).  A detected hand is given by the landmark values the   *)
(* handler reads: the wrist x (landmark 0), the palm centre (landmark 9),  *)
(* in sixtieths of the normalised image range, and the two flags computed  *)
(* by isHandOpen and isHandPinched.                                        *)

\* variant: the oldest sample is dropped one push late
PushedLate(history, point) ==
    LET h == Append(history, point)
    IN  IF Len(h) > windowSize + 1 THEN Tail(h) ELSE h

\* add, lines 456-462: the history after the push
Pushed(history, point) ==
    LET h == Append(history, point)
    IN  IF Len(h) > windowSize THEN Tail(h) ELSE h

RECURSIVE WeightedSum(_, _, _)
WeightedSum(history, coord, i) ==
    IF i = 0 THEN 0 ELSE WeightedSum(history, coord, i - 1) + history[i][coord] * i

RECURSIVE TotalWeight(_)
TotalWeight(n) == IF n = 0 THEN 0 ELSE TotalWeight(n - 1) + n

\* getSmoothed, lines 464-483
getSmoothed(history) ==
    IF Len(history) = 0 THEN <<0, 0, 0>>
    ELSE LET w == TotalWeight(Len(history))
         IN  <<WeightedSum(history, 1, Len(history)) \div w,
               WeightedSum(history, 2, Len(history)) \div w,
               WeightedSum(history, 3, Len(history)) \div w>>

\* toWorld, line 750, of a value in sixtieths: (val - 0.5) * (isX ? -30 : -20)
toWorld(val, isX) ==
    IF isX THEN ((30 - val) * 30 * Scale) \div 60 ELSE ((30 - val) * 20 * Scale) \div 60

\* rawPos, lines 777-781 and 794-798
RawPos(lm) == <<toWorld(lm.palmX, TRUE), toWorld(lm.palmY, FALSE), -((lm.palmZ * 10 * Scale) \div 60)>>

\* the assignment of the detected hands to left and right, lines 755-773
LeftLandmarks(hands) ==
    IF Len(hands) = 1 THEN (IF 2 * hands[1].wristX > 60 THEN <<hands[1]>> ELSE <<>>)
    ELSE IF hands[1].wristX < hands[2].wristX THEN <<hands[2]>> ELSE <<hands[1]>>

RightLandmarks(hands) ==
    IF Len(hands) = 1 THEN (IF 2 * hands[1].wristX > 60 THEN <<>> ELSE <<hands[1]>>)
    ELSE IF hands[1].wristX < hands[2].wristX THEN <<hands[1]>> ELSE <<hands[2]>>

\* data.left / data.right, lines 783-787 and 800-804
HandOf(lms, history) ==
    IF lms = <<>> THEN NoHand
    ELSE LET p == getSmoothed(Pushed(history, RawPos(lms[1])))
         IN  Hand(p[1], p[2], p[3], lms[1].isOpen, lms[1].isPinched)

\* what a frame gives to a hand's filter: a raw position, or nothing (reset)
NoSample == [present |-> FALSE, p |-> <<0, 0, 0>>]
Sample(point) == [present |-> TRUE, p |-> point]
RawOf(lms) == IF lms = <<>> THEN NoSample ELSE Sample(RawPos(lms[1]))

\* variant: the history is kept while the hand is away
FilterAfterKept(lms, history) ==
    IF lms = <<>> THEN history ELSE Pushed(history, RawPos(lms[1]))

\* the filter history after the frame: add when the hand is there, reset when not
FilterAfter(lms, history) == IF lms = <<>> THEN <<>> ELSE Pushed(history, RawPos(lms[1]))

\* Math.atan2(dy, dx) in degrees, to the nearest multiple of 45
Atan2(dy, dx) ==
    IF dy = 0 /\ dx = 0 THEN 0
    ELSE IF 2 * Abs(dy) < Abs(dx) THEN (IF dx > 0 THEN 0 ELSE 180 * (IF dy < 0 THEN -1 ELSE 1))
    ELSE IF 2 * Abs(dx) < Abs(dy) THEN 90 * Sign(dy)
    ELSE (IF dx > 0 THEN 45 ELSE 135) * Sign(dy)

\* distance and centre, lines 810-820 (zero unless both hands are there)
\* variant: with one hand, the centre is that hand's position
GeometryAtSingleHand(l, r) ==
    IF l.present /\ r.present
    THEN LET dx == r.x - l.x
             dy == r.y - l.y
             dz == r.z - l.z
         IN  [distSq |-> dx * dx + dy * dy + dz * dz,
              centerX |-> (l.x + r.x) \div 2, centerY |-> (l.y + r.y) \div 2,
              centerZ |-> (l.z + r.z) \div 2, rotation |-> Atan2(dy, dx)]
    ELSE LET h == IF l.present THEN l ELSE r
         IN  [distSq |-> 0, centerX |-> h.x, centerY |-> h.y, centerZ |-> h.z,
              rotation |-> 0]

Geometry(l, r) ==
    IF l.present /\ r.present
    THEN LET dx == r.x - l.x
             dy == r.y - l.y
             dz == r.z - l.z
         IN  [distSq |-> dx * dx + dy * dy + dz * dz,
              centerX |-> (l.x + r.x) \div 2, centerY |-> (l.y + r.y) \div 2,
              centerZ |-> (l.z + r.z) \div 2, rotation |-> Atan2(dy, dx)]
    ELSE [distSq |-> 0, centerX |-> 0, centerY |-> 0, centerZ |-> 0, rotation |-> 0]

\* variant: the slot is assigned before the gesture is detected
processResultsEarlySlot(hands, time) ==
    IF Len(hands) > 0
    THEN LET l == HandOf(LeftLandmarks(hands), leftFilter)
             r == HandOf(RightLandmarks(hands), rightFilter)
             g == Geometry(l, r)
         IN  /\ leftFilter' = FilterAfter(LeftLandmarks(hands), leftFilter)
             /\ rightFilter' = FilterAfter(RightLandmarks(hands), rightFilter)
             /\ rawLog' = Append(rawLog, [left |-> RawOf(LeftLandmarks(hands)),
                                          right |-> RawOf(RightLandmarks(hands))])
             /\ detectGesture(l, r, g.distSq, time)
             /\ handData' = [left |-> l, right |-> r, distSq |-> g.distSq,
                             centerX |-> g.centerX, centerY |-> g.centerY,
                             centerZ |-> g.centerZ, rotation |-> g.rotation,
                             gesture |-> "IDLE"]
             /\ frameLog' = Append(frameLog,
                    LogEntry([left |-> l, right |-> r, distSq |-> g.distSq],
                             DetectedGesture(l, r, g.distSq, pinchHistory'), currentGesture'))
    ELSE /\ leftFilter' = <<>>
         /\ rightFilter' = <<>>
         /\ rawLog' = Append(rawLog, [left |-> NoSample, right |-> NoSample])
         /\ reset
         /\ handData' = initialHandData
         /\ frameLog' = Append(frameLog,
                LogEntry([left |-> NoHand, right |-> NoHand, distSq |-> 0], "NONE", "IDLE"))

\* processResults(results, time), lines 738-835, on the detected hands
processResults(hands, time) ==
    IF Len(hands) > 0
    THEN LET l == HandOf(LeftLandmarks(hands), leftFilter)
             r == HandOf(RightLandmarks(hands), rightFilter)
             g == Geometry(l, r)
         IN  /\ leftFilter' = FilterAfter(LeftLandmarks(hands), leftFilter)
             /\ rightFilter' = FilterAfter(RightLandmarks(hands), rightFilter)
             /\ rawLog' = Append(rawLog, [left |-> RawOf(LeftLandmarks(hands)),
                                          right |-> RawOf(RightLandmarks(hands))])
             /\ detectGesture(l, r, g.distSq, time)
             /\ handData' = [left |-> l, right |-> r, distSq |-> g.distSq,
                             centerX |-> g.centerX, centerY |-> g.centerY,
                             centerZ |-> g.centerZ, rotation |-> g.rotation,
                             gesture |-> currentGesture']
             /\ frameLog' = Append(frameLog,
                    LogEntry([left |-> l, right |-> r, distSq |-> g.distSq],
                             DetectedGesture(l, r, g.distSq, pinchHistory'), currentGesture'))
    ELSE /\ leftFilter' = <<>>
         /\ rightFilter' = <<>>
         /\ rawLog' = Append(rawLog, [left |-> NoSample, right |-> NoSample])
         /\ reset
         /\ handData' = initialHandData
         /\ frameLog' = Append(frameLog,
                LogEntry([left |-> NoHand, right |-> NoHand, distSq |-> 0], "NONE", "IDLE"))

----------------------------------------------------------------------------
(* Filter specification: one SmoothingFilter (the left hand's) driven by   *)
(* add and reset calls.                                                    *)

\* positions given to add, in whole world units
FilterPoints ==
    { <<0, 0, 0>>, <<7 * Scale, -3 * Scale, Scale>>, <<-15 * Scale, 10 * Scale, -2 * Scale>> }

\* add(point), lines 456-462
FilterAdd ==
    /\ Len(rawLog) < MaxSamples
    /\ \E point \in FilterPoints :
          /\ leftFilter' = Pushed(leftFilter, point)
          /\ rawLog' = Append(rawLog, [left |-> Sample(point), right |-> NoSample])
    /\ UNCHANGED <<rightFilter, now, handData, frameLog, snapshotRead>>
    /\ UNCHANGED detVars
    /\ UNCHANGED simVars

\* reset(), lines 485-487
FilterReset ==
    /\ Len(rawLog) < MaxSamples
    /\ leftFilter' = <<>>
    /\ rawLog' = Append(rawLog, [left |-> NoSample, right |-> NoSample])
    /\ UNCHANGED <<rightFilter, now, handData, frameLog, snapshotRead>>
    /\ UNCHANGED detVars
    /\ UNCHANGED simVars

NextFilter == FilterAdd \/ FilterReset

SpecFilter == Init /\ [][NextFilter]_vars

----------------------------------------------------------------------------
(* The composed system: the tracker publishing into the single slot and    *)
(* the simulator ticking on its own cadence.                               *)

Landmarks(wx, px, py, pz, open, pinched) ==
    [wristX |-> wx, palmX |-> px, palmY |-> py, palmZ |-> pz, isOpen |-> open, isPinched |-> pinched]

\* detections offered to the tracker: no hands; two open hands 10 apart;
\* the same with one hand pinched
TrackerInputs ==
    { <<>>,
      <<Landmarks(20, 20, 30, 0, TRUE, FALSE), Landmarks(40, 40, 30, 0, TRUE, FALSE)>>,
      <<Landmarks(40, 40, 30, 0, FALSE, TRUE), Landmarks(20, 20, 30, 0, TRUE, FALSE)>> }

\* one tracking frame (predictWebcam, lines 684-695)
TrackerFrame ==
    /\ now < MaxSystemFrames
    /\ now' = now + 1
    /\ \E hands \in TrackerInputs : processResults(hands, now')
    /\ snapshotRead' = FALSE
    /\ UNCHANGED simVars

\* a simulator tick of the composed system
SystemTick == ticks < MaxSystemTicks /\ \E delta \in Deltas : useFrame(delta)

Next == Mount \/ TrackerFrame \/ SystemTick

Spec == Init /\ [][Next]_vars

----------------------------------------------------------------------------
(* Relaxation specification: a freshly initialised ensemble ticking at     *)
(* 1/60 s while the tracker sees no hands.                                 *)

InitRelax == InitWith(RelaxParticles)

\* one tracking frame with no hands: lines 829-835
NoHandsFrame ==
    /\ now < MaxRelaxFrames
    /\ now' = now + 1
    /\ processResults(<<>>, now')
    /\ snapshotRead' = FALSE
    /\ UNCHANGED simVars

RelaxTick == ticks < MaxRelaxTicks /\ useFrame(1)

NextRelax == Mount \/ NoHandsFrame \/ RelaxTick

SpecRelax == InitRelax /\ [][NextRelax]_vars

----------------------------------------------------------------------------
(* Response specification: the classifier is brought to a reachable state  *)
(* by frames of any kind, and is then fed frames of the CIRCLE pose only.  *)

\* the CIRCLE pose of line 553 among the classifier's inputs
PoseInputs ==
    { in \in DetectorInputs :
         /\ in.left.present /\ in.right.present
         /\ in.left.isOpen /\ in.right.isOpen
         /\ ~in.left.isPinched /\ ~in.right.isPinched
         /\ in.distSq > Sq(CircleMin) /\ in.distSq < Sq(CircleMax) }

\* a frame with at least one hand, of any kind: lines 822-828
PrefixFrame ==
    /\ now < MaxResponsePrefix
    /\ \E in \in DetectorInputs :
        /\ now' = now + 1
        /\ detectGesture(in.left, in.right, in.distSq, now')
        /\ frameLog' = Append(frameLog,
               LogEntry(in, DetectedGesture(in.left, in.right, in.distSq, pinchHistory'),
                        currentGesture'))
    /\ UNCHANGED <<handData, snapshotRead>>
    /\ UNCHANGED filterVars
    /\ UNCHANGED simVars

\* a frame with no hands: lines 829-833
PrefixReset ==
    /\ now < MaxResponsePrefix
    /\ now' = now + 1
    /\ reset
    /\ frameLog' = Append(frameLog,
           LogEntry([left |-> NoHand, right |-> NoHand, distSq |-> 0], "NONE", "IDLE"))
    /\ UNCHANGED <<handData, snapshotRead>>
    /\ UNCHANGED filterVars
    /\ UNCHANGED simVars

\* a frame of the pose, once the pose is held
PoseFrame ==
    /\ now >= MaxResponsePrefix
    /\ now < MaxResponsePrefix + MaxPoseFrames
    /\ \E in \in PoseInputs :
        /\ now' = now + 1
        /\ detectGesture(in.left, in.right, in.distSq, now')
        /\ frameLog' = Append(frameLog,
               LogEntry(in, DetectedGesture(in.left, in.right, in.distSq, pinchHistory'),
                        currentGesture'))
    /\ UNCHANGED <<handData, snapshotRead>>
    /\ UNCHANGED filterVars
    /\ UNCHANGED simVars

NextResponse == PrefixFrame \/ PrefixReset \/ PoseFrame

SpecResponse == Init /\ [][NextResponse]_vars

----------------------------------------------------------------------------
(* generateParticles (src/unnamed/part_000).  Coordinates are in the       *)
(* particles' fixed-point units, rounded to the nearest unit.  A draw      *)
(* stands for the Math.random() values one particle consumes: u is the     *)
(* first variate of the particle's case, in twentieths, and k picks among  *)
(* the outcomes of the remaining ones.                                     *)

\* enum ShapeType, src/unnamed/part_003 lines 3-11
ShapeTypes == {"Sphere", "Cube", "Heart", "Flower", "Saturn", "Buddha", "Galaxy"}
\* the kinds passed to generateParticles: the enum and a string outside it
ShapeKinds == ShapeTypes \cup {"Torus"}

\* Math.random(), in twentieths: the midpoints of the ten tenths of [0, 1)
Variates == {1, 3, 5, 7, 9, 11, 13, 15, 17, 19}
Draws == [u : Variates, k : {1, 2}]

\* randomInSphere, lines 5-17, radius in tenths of a world unit: two of its points
InSphere(radius10, k) ==
    IF k = 1 THEN Zero
    ELSE <<(2 * radius10 * VelScale) \div 50, 0, -((radius10 * VelScale) \div 50)>>

\* a point given in thousandths of a world unit
Thousandths(x, y, z) ==
    <<RoundDiv(x * VelScale, 1000), RoundDiv(y * VelScale, 1000), RoundDiv(z * VelScale, 1000)>>

\* FLOWER, lines 54-61: 0.4 * 0.5 * sqrt(i) * (cos, sin)(i * 137.5 degrees), for the
\* first particles; the depth (Math.random() - 0.5) * radius * 0.5 * 0.4 is below 0.1
FlowerPoint(i) ==
    CASE i = 0 -> Thousandths(0, 0, 0)
      [] i = 1 -> Thousandths(-147, 135, 0)
      [] i = 2 -> Thousandths(25, -282, 0)
      [] i = 3 -> Thousandths(211, 275, 0)

\* SATURN ring, lines 70-78: (rRing, 0, 0) turned by 30 degrees about (1,0,1)/sqrt 2,
\* with rRing = 6 + Math.random() * 6 one of 6 and 9 and thetaRing = 0
RingPoint(k) ==
    LET rRing == IF k = 1 THEN 6 ELSE 9
    IN  Thousandths(933 * rRing, 354 * rRing, 67 * rRing)

\* BUDDHA, lines 96-118, in half world units: every attempt draws the point
\* (u - 10, y, 0) with y one of 0 and -6; it is kept when it is in the head, the body
\* or the legs, and after 20 failed attempts the fallback is used
BuddhaValid(x, y, z) ==
    LET head == x * x + (y - 8) * (y - 8) + z * z < 3 * 3
        body == x * x + y * y + z * z < 7 * 7
        legs == y < -4 /\ y > -10 /\ Abs(x) < 8 /\ Abs(z) < 6
    IN  head \/ body \/ legs

\* the switch of lines 25-123 for particle i: the sampler used and the point p
ShapeSample(type, i, count, d) ==
    CASE type = "Sphere" -> [sampler |-> "randomInSphere(10)", p |-> InSphere(100, d.k)]
      [] type = "Cube" ->
            [sampler |-> "cube",
             p |-> <<(d.u - 10) * VelScale, IF d.k = 1 THEN 0 ELSE -10 * VelScale, 0>>]
      [] type = "Heart" ->
            [sampler |-> "heart",
             p |-> VAdd(Thousandths(0, IF d.k = 1 THEN 2500 ELSE -8500, (d.u - 10) * 100),
                        InSphere(5, d.k))]
      [] type = "Flower" -> [sampler |-> "flower", p |-> FlowerPoint(i)]
      [] type = "Saturn" ->
            IF d.u * 10 > 4 * 20
            THEN [sampler |-> "randomInSphere(4)", p |-> InSphere(40, d.k)]
            ELSE [sampler |-> "ring", p |-> RingPoint(d.k)]
      [] type = "Galaxy" -> [sampler |-> "galaxy", p |-> <<0, (d.u - 10) * VelScale, 0>>]
      [] type = "Buddha" ->
            LET x == d.u - 10
                y == IF d.k = 1 THEN 0 ELSE -6
            IN  IF BuddhaValid(x, y, 0)
                THEN [sampler |-> "buddha", p |-> <<x * Resolution, y * Resolution, 0>>]
                ELSE [sampler |-> "randomInSphere(3)", p |-> InSphere(30, d.k)]
      [] OTHER -> [sampler |-> "randomInSphere(10)", p |-> InSphere(100, d.k)]

\* an entry of the Float32Array: zero until it is assigned
Unwritten == [written |-> FALSE, v |-> 0]
Entry(v) == [written |-> TRUE, v |-> v]

\* lines 125-127
Write3(array, i, p) ==
    [k \in DOMAIN array |->
        IF k = 3 * i + 1 THEN Entry(p[1])
        ELSE IF k = 3 * i + 2 THEN Entry(p[2])
        ELSE IF k = 3 * i + 3 THEN Entry(p[3])
        ELSE array[k]]

\* variant: the loop stops one particle early
RECURSIVE FilledShort(_, _, _, _, _)
FilledShort(array, type, draws, i, count) ==
    IF i < count - 1
    THEN FilledShort(Write3(array, i, ShapeSample(type, i, count, draws[i + 1]).p),
                     type, draws, i + 1, count)
    ELSE array

\* the loop of lines 22-128, from particle i on
RECURSIVE Filled(_, _, _, _, _)
Filled(array, type, draws, i, count) ==
    IF i < count
    THEN Filled(Write3(array, i, ShapeSample(type, i, count, draws[i + 1]).p),
                type, draws, i + 1, count)
    ELSE array

\* generateParticles, lines 19-131
generateParticles(count, type, draws) ==
    Filled([k \in 1..(count * 3) |-> Unwritten], type, draws, 0, count)

\* a call about to be made, with any count, kind and outcome of the random source
InitGenerate ==
    /\ Constructed(0)
    /\ \E count \in 0..MaxGenCount, type \in ShapeKinds :
         \E draws \in [1..count -> Draws] :
            generated = [type |-> type, count |-> count, draws |-> draws,
                         returned |-> FALSE, samplers |-> <<>>, positions |-> <<>>]

\* the call runs and returns
Generate ==
    /\ ~generated.returned
    /\ generated' = [generated EXCEPT
          !.returned = TRUE,
          !.samplers = [i \in 1..generated.count |->
                          ShapeSample(generated.type, i - 1, generated.count,
                                      generated.draws[i]).sampler],
          !.positions = generateParticles(generated.count, generated.type, generated.draws)]
    /\ UNCHANGED <<config, mounted, simState, ticks, lastTick, explosions, initialDistance>>
    /\ UNCHANGED <<now, handData, frameLog, snapshotRead>>
    /\ UNCHANGED particleVars
    /\ UNCHANGED reactVars
    /\ UNCHANGED filterVars
    /\ UNCHANGED detVars

SpecGenerate == InitGenerate /\ [][Generate]_vars

----------------------------------------------------------------------------
(* Tracker specification: processResults alone, on detections in which the *)
(* hands come, go and move.                                                *)

\* no hands; one open hand on the left side, at two places; one pinched hand on
\* the right side; two open hands, 10 apart and further apart in the other order
SmoothingInputs ==
    { <<>>,
      <<Landmarks(40, 40, 30, 0, TRUE, FALSE)>>,
      <<Landmarks(50, 52, 24, 6, TRUE, FALSE)>>,
      <<Landmarks(20, 20, 30, 0, FALSE, TRUE)>>,
      <<Landmarks(40, 40, 30, 0, TRUE, FALSE), Landmarks(20, 20, 30, 0, TRUE, FALSE)>>,
      <<Landmarks(20, 10, 36, 0, TRUE, FALSE), Landmarks(40, 50, 24, 6, TRUE, FALSE)>> }

SmoothingFrame ==
    /\ now < MaxTrackerFrames
    /\ now' = now + 1
    /\ \E hands \in SmoothingInputs : processResults(hands, now')
    /\ snapshotRead' = FALSE
    /\ UNCHANGED simVars

SpecTracker == Init /\ [][SmoothingFrame]_vars

----------------------------------------------------------------------------
(* Reading the classifier's trace *)

LastFrame == frameLog[Len(frameLog)]

IsReset(e) == e.cand = "NONE"
BothPresent(e) == e.left.present /\ e.right.present
PinchedFrame(e) == PinchedOf(e.left) \/ PinchedOf(e.right)
BothOpenUnpinched(e) ==
    /\ BothPresent(e)
    /\ e.left.isOpen /\ e.right.isOpen
    /\ ~e.left.isPinched /\ ~e.right.isPinched
InBand(e) == e.distSq > Sq(CircleMin) /\ e.distSq < Sq(CircleMax)
CircleFrame(e) == BothOpenUnpinched(e) /\ e.distSq = Sq(10)

InstantGestures == {"COMPRESS", "EXPAND", "COLLAPSE"}

\* first frame of the current epoch: the frame after the last reset frame
EpochStart ==
    LET resets == {i \in 1..Len(frameLog) : IsReset(frameLog[i])}
    IN  IF resets = {} THEN 1 ELSE 1 + CHOOSE i \in resets : \A j \in resets : j <= i

\* number of frames up to frame n on which the candidate was the same as on frame n
RECURSIVE CandRun(_)
CandRun(n) ==
    IF n <= 1 THEN n
    ELSE IF frameLog[n - 1].cand = frameLog[n].cand THEN 1 + CandRun(n - 1) ELSE 1

----------------------------------------------------------------------------
(* C1: the committed gesture changes to CIRCLE only on a frame where       *)
(* CIRCLE was the candidate on that frame and on the 3 preceding frames.   *)
(* The code violates it: the quick exit from COMPRESS (lines 596-600)      *)
(* commits the pending candidate, CIRCLE included, after 2 frames.         *)
C1_CircleNeedsFourFrames ==
    LET n == Len(frameLog)
    IN  (n > 0 /\ LastFrame.ret = "CIRCLE" /\ LastFrame.prev # "CIRCLE")
        => /\ n >= confirmationThreshold
           /\ \A j \in (n - confirmationThreshold + 1)..n : frameLog[j].cand = "CIRCLE"

(* C2: from a fresh or reset detector, consecutive frames with both hands  *)
(* open, unpinched, at distance 10 return IDLE on frames 1 to 3 and        *)
(* CIRCLE on frame 4 and on every later such frame.                        *)
C2_CircleOnFourthFrame ==
    LET n == Len(frameLog)
        s == EpochStart
    IN  (n >= s /\ \A j \in s..n : CircleFrame(frameLog[j]))
        => LastFrame.ret = (IF n - s + 1 >= 4 THEN "CIRCLE" ELSE "IDLE")

C2_Witness ==
    LET n == Len(frameLog)
        s == EpochStart
    IN  /\ s > 1
        /\ n - s + 1 >= 5
        /\ \A j \in s..n : CircleFrame(frameLog[j])
        /\ LastFrame.ret = "CIRCLE"
        /\ frameLog[n - 2].ret = "IDLE"

\* a pinch three frames before frame n, still in the pinch window
PinchThreeBack(n) ==
    /\ n - (ReleaseWindow - 1) >= EpochStart
    /\ PinchedFrame(frameLog[n - (ReleaseWindow - 1)])

\* the 4 frames before frame n were all both-hands-open frames inside the band
SustainedCircle(n) ==
    /\ n > confirmationThreshold
    /\ \A j \in (n - confirmationThreshold)..(n - 1) :
           BothOpenUnpinched(frameLog[j]) /\ InBand(frameLog[j])

(* C3 as stated: while CIRCLE is committed (after a sustained CIRCLE       *)
(* pose), a single both-hands-open frame whose distance is outside         *)
(* (5, 18), whatever the value, still returns CIRCLE.                      *)
C3_AnyDropoutKeepsCircle ==
    LET n == Len(frameLog)
    IN  (SustainedCircle(n) /\ LastFrame.prev = "CIRCLE"
           /\ BothOpenUnpinched(LastFrame) /\ ~InBand(LastFrame))
        => LastFrame.ret = "CIRCLE"

(* C3 (amended): while CIRCLE is committed, a single both-hands-open frame *)
(* whose distance is outside (5, 18) but not below 4, with no pinch three  *)
(* frames earlier, keeps CIRCLE; CIRCLE is replaced only on a frame whose  *)
(* candidate is instant-commit (COMPRESS, EXPAND, COLLAPSE) or has been    *)
(* the candidate for 4 consecutive frames, and then by that candidate.     *)
C3_DropoutKeepsCircle ==
    LET n == Len(frameLog)
    IN  /\ (n >= 2 /\ LastFrame.prev = "CIRCLE" /\ BothOpenUnpinched(LastFrame)
              /\ ~InBand(LastFrame) /\ LastFrame.distSq >= Sq(CollapseMax)
              /\ ~PinchThreeBack(n)
              /\ BothOpenUnpinched(frameLog[n - 1]) /\ InBand(frameLog[n - 1]))
           => LastFrame.ret = "CIRCLE"
        /\ (n >= 1 /\ LastFrame.prev = "CIRCLE" /\ ~IsReset(LastFrame)
              /\ LastFrame.ret # "CIRCLE")
           => /\ LastFrame.ret = LastFrame.cand
              /\ \/ LastFrame.cand \in InstantGestures
                 \/ CandRun(n) >= confirmationThreshold

C3_Witness ==
    LET n == Len(frameLog)
    IN  /\ n >= 5
        /\ LastFrame.prev = "CIRCLE" /\ LastFrame.prevCount >= confirmationThreshold
        /\ BothOpenUnpinched(LastFrame) /\ LastFrame.distSq = Sq(CircleMax)
        /\ LastFrame.cand = "IDLE"
        /\ LastFrame.ret = "CIRCLE"

----------------------------------------------------------------------------
(* Release edges *)

TwoHandPinched(e) == BothPresent(e) /\ PinchedFrame(e)

\* frame t ends a maximal run of pinched two-hand frames that is followed by
\* at least 3 frames with both hands present, open and unpinched
ReleaseEdge(t) ==
    /\ t + 3 <= Len(frameLog)
    /\ TwoHandPinched(frameLog[t])
    /\ \A j \in (t + 1)..(t + 3) : BothOpenUnpinched(frameLog[j])

\* last frame before the next pinched frame after t
RECURSIVE SegEnd(_)
SegEnd(f) ==
    IF f < Len(frameLog) /\ ~PinchedFrame(frameLog[f + 1]) THEN SegEnd(f + 1) ELSE f

ExpandFrames(t) == {f \in (t + 1)..SegEnd(t) : frameLog[f].ret = "EXPAND"}

Contiguous(S) == \A a \in S : \A b \in S : \A c \in a..b : c \in S

\* an earlier pinch run ended one frame before frame t (pinched, unpinched, t)
EarlierEdgeInWindow(t) ==
    /\ t >= 3
    /\ PinchedFrame(frameLog[t - 2])
    /\ ~IsReset(frameLog[t - 1]) /\ ~PinchedFrame(frameLog[t - 1])

(* C4 as stated: for every maximal run of pinched two-hand frames followed *)
(* by at least 3 open frames, EXPAND is committed during those frames and  *)
(* the EXPAND frames up to the next pinch form one contiguous run.         *)
C4_ExpandOncePerRelease ==
    \A t \in 1..Len(frameLog) :
        ReleaseEdge(t)
        => /\ \E f \in (t + 1)..(t + 3) : frameLog[f].ret = "EXPAND"
           /\ Contiguous(ExpandFrames(t))

(* C4 (amended): the same, for every such run whose last frame is not      *)
(* preceded by the release edge of an earlier pinch one frame before       *)
(* (frames t-2 pinched, t-1 unpinched, t pinched).                         *)
C4_ExpandOncePerIsolatedRelease ==
    \A t \in 1..Len(frameLog) :
        (ReleaseEdge(t) /\ ~EarlierEdgeInWindow(t))
        => /\ \E f \in (t + 1)..(t + 3) : frameLog[f].ret = "EXPAND"
           /\ frameLog[t + 3].ret = "EXPAND"
           /\ Contiguous(ExpandFrames(t))

C4_Witness ==
    \E t \in 1..Len(frameLog) :
        /\ ReleaseEdge(t) /\ ~EarlierEdgeInWindow(t)
        /\ frameLog[t + 3].ret = "EXPAND"
        /\ SegEnd(t) > t + 3
        /\ frameLog[SegEnd(t)].ret # "EXPAND"

----------------------------------------------------------------------------
(* C5: on a frame whose candidate is COMPRESS, EXPAND or COLLAPSE,         *)
(* detectGesture returns that candidate on the same frame, whatever was    *)
(* committed or pending before, and sets gestureStartTime to the frame's   *)
(* time.                                                                   *)
C5_InstantCommit ==
    (Len(frameLog) > 0 /\ LastFrame.cand \in InstantGestures)
    => /\ LastFrame.ret = LastFrame.cand
       /\ currentGesture = LastFrame.cand
       /\ gestureStartTime = LastFrame.time

C5_Witness ==
    /\ Len(frameLog) > 0
    /\ LastFrame.cand = "COLLAPSE"
    /\ LastFrame.prev = "CIRCLE"
    /\ LastFrame.prevCount >= confirmationThreshold
    /\ currentGesture = "COLLAPSE"
    /\ gestureStartTime = now

----------------------------------------------------------------------------
(* Reading the simulator's ticks *)

Ticked == lastTick.gesture # "NONE"
InCooldown == lastTick.time - lastTick.explosionBefore <= ExplosionCooldown

(* C6: any two updates of explosionTime are at simulation times more than  *)
(* 1.5 s apart, and a tick that reads COLLAPSE while time - explosionTime  *)
(* is at most 1.5 s leaves explosionTime unchanged.                        *)
C6_ExplosionCooldown ==
    /\ \A i \in 1..Len(explosions) : \A j \in 1..Len(explosions) :
           i < j => explosions[j] - explosions[i] > ExplosionCooldown
    /\ (Ticked /\ lastTick.gesture = "COLLAPSE" /\ InCooldown)
       => simState.explosionTime = lastTick.explosionBefore

C6_Witness ==
    /\ Len(explosions) = 2
    /\ lastTick.gesture = "COLLAPSE"
    /\ InCooldown
    /\ lastTick.time - lastTick.explosionBefore = ExplosionCooldown
    /\ simState.explosionTime = explosions[2]

(* C7: after every tick on which the snapshot's gesture is COLLAPSE,       *)
(* planetMode is false, whether or not the cooldown allowed an explosion.  *)
(* The code violates it: planetMode is cleared only inside the block that  *)
(* the cooldown guards (lines 145-148).                                    *)
C7_CollapseClearsPlanetMode ==
    (Ticked /\ lastTick.gesture = "COLLAPSE") => ~simState.planetMode

----------------------------------------------------------------------------
(* The composed system *)

\* the last n frames were all frames with both hands open at distance 10
OpenRun(last, n) ==
    /\ n >= 1
    /\ last - n + 1 >= EpochStart
    /\ \A j \in (last - n + 1)..last : CircleFrame(frameLog[j])

\* the pose was held for threshold + 1 frames up to frame last
PoseHeld(last) == OpenRun(last, confirmationThreshold + 1)

\* no pinched frame on the two frames before the 5 frames that end at frame last
\* (a pinch there makes EXPAND the candidate inside the last 4 of them)
NoPinchBefore(last) ==
    \A j \in (last - confirmationThreshold - 2)..(last - confirmationThreshold - 1) :
        j >= EpochStart => ~PinchedFrame(frameLog[j])

\* the latest frame is a COMPRESS frame that follows the held pose
CompressAfterPose ==
    /\ Len(frameLog) > confirmationThreshold + 1
    /\ LastFrame.cand = "COMPRESS"
    /\ PoseHeld(Len(frameLog) - 1)

(* C9 as stated: in every interleaving of tracker frames and simulator     *)
(* ticks, once the pose was held for 5 frames the published gesture is     *)
(* CIRCLE, and the simulator has entered planetMode by the time the        *)
(* following COMPRESS frame is published, which then ends it.              *)
C9_PoseEntersPlanetMode ==
    /\ PoseHeld(Len(frameLog)) => handData.gesture = "CIRCLE"
    /\ (CompressAfterPose /\ ~snapshotRead /\ mounted /\ ticks > 0) => simState.planetMode

(* C9 (amended): once the pose was held for 5 frames with no pinched frame *)
(* on the two frames before them, the published gesture is CIRCLE; a       *)
(* simulator tick that reads that snapshot leaves planetMode true, and a   *)
(* tick that reads the snapshot of the following COMPRESS frame leaves     *)
(* planetMode false.  The simulator enters planetMode only if it ticks     *)
(* while a CIRCLE snapshot is in the slot.                                 *)
C9_PoseDrivesPlanetMode ==
    LET n == Len(frameLog)
    IN  /\ (PoseHeld(n) /\ NoPinchBefore(n)) => handData.gesture = "CIRCLE"
        /\ (PoseHeld(n) /\ NoPinchBefore(n) /\ snapshotRead) => simState.planetMode
        /\ CompressAfterPose => handData.gesture = "COMPRESS"
        /\ (CompressAfterPose /\ snapshotRead) => ~simState.planetMode

C9_Witness ==
    /\ CompressAfterPose
    /\ NoPinchBefore(Len(frameLog) - 1)
    /\ snapshotRead
    /\ lastTick.gesture = "COMPRESS"
    /\ lastTick.planetBefore
    /\ ~simState.planetMode

----------------------------------------------------------------------------
----------------------------------------------------------------------------
(* Particles at rest *)

NoHandsIdle(d) == ~d.left.present /\ ~d.right.present /\ d.gesture = "IDLE"
AtRest(i) == positions[i] = originalPositions[i] /\ velocities[i] = Zero

\* a tick reads a snapshot with no hands and gesture IDLE, and every particle
\* that was at rest with zero velocity is so after it
RestKept ==
    \A i \in 1..config.count :
        AtRest(i) => positions'[i] = positions[i] /\ velocities'[i] = Zero

(* C11 as stated: in a tick with no hands and gesture IDLE, in every mode  *)
(* state (any planetMode, any explosion timer), a particle at its rest     *)
(* position with zero velocity has the same position and zero velocity     *)
(* after the tick.                                                         *)
C11_RestIsStationary ==
    [][(ticks' # ticks /\ NoHandsIdle(handData)) => RestKept]_vars

(* C11 (amended): the same for every tick during which no explosion is in  *)
(* progress (explosionAge is not in (0, 2)), whatever planetMode is.  In a *)
(* tick during an explosion the blast and its turbulence move a particle   *)
(* at rest.                                                                *)
C11_RestIsStationaryUnlessExploding ==
    [][(ticks' # ticks /\ NoHandsIdle(handData) /\ ~lastTick'.isExploding) => RestKept]_vars

C11_Witness ==
    /\ ticks >= 2
    /\ config.count > 0
    /\ NoHandsIdle(handData) /\ snapshotRead
    /\ lastTick.gesture = "IDLE" /\ lastTick.planetBefore /\ ~lastTick.isExploding
    /\ \A i \in 1..config.count : AtRest(i)

----------------------------------------------------------------------------
(* Reading the buffers *)

Indices(a) == DOMAIN a
BuffersChange == particleVars' # particleVars

(* C12: in every state, hence at every tick, the position, velocity and    *)
(* rest-position arrays all have one entry per particle of the count the   *)
(* component rendered with; and every step other than a tick that changes  *)
(* one of them replaces the three together: positions and rest positions   *)
(* by the same new array, velocities by an array of initial velocities.    *)
C12_BuffersAgree ==
    /\ [](/\ Indices(positions) = 1..config.count
          /\ Indices(velocities) = 1..config.count
          /\ Indices(originalPositions) = 1..config.count)
    /\ [][(ticks' = ticks /\ BuffersChange)
             => /\ positions' = originalPositions'
                /\ \A i \in Indices(velocities') : velocities'[i] \in Jitters \cup {Zero}]_vars

C12_Witness ==
    /\ config.count = 2
    /\ effectDue
    /\ ticks > 0
    /\ Indices(positions) = 1..2
    /\ \E i \in 1..2 : velocities[i] # Zero

(* C13: the three arrays are regenerated when and only when the particle   *)
(* count or the shape changes: whenever no init effect is pending the      *)
(* arrays were generated for the rendered count and shape, and a step      *)
(* other than a tick changes an array only if the count or the shape       *)
(* differs from those the arrays were last generated for; a change of      *)
(* friction, color or size changes none.  The code violates it: the init   *)
(* effect lists config.color among its dependencies (line 61) and          *)
(* regenerates positions, velocities and rest positions on a color change. *)
C13_RegeneratedOnlyOnCountOrShape ==
    /\ []((mounted /\ ~effectDue)
             => /\ generatedFor.count = config.count
                /\ generatedFor.shape = config.shape)
    /\ [][(mounted /\ ticks' = ticks /\ BuffersChange)
             => \/ config'.count # generatedFor.count
                \/ config'.shape # generatedFor.shape]_vars

----------------------------------------------------------------------------
(* Reading the raw positions given to a filter *)

LeftRaw(j) == rawLog[j].left
RightRaw(j) == rawLog[j].right

\* first frame of the run of frames up to n that gave the filter a sample
RECURSIVE RunStart(_, _)
RunStart(raw(_), n) ==
    IF n >= 1 /\ raw(n).present THEN RunStart(raw, n - 1) ELSE n + 1

\* the samples the filter retains after frame n: the last windowSize of the run
Retained(raw(_), n) ==
    LET first == IF n - RunStart(raw, n) + 1 > windowSize
                 THEN n - windowSize + 1 ELSE RunStart(raw, n)
    IN  [i \in 1..(n - first + 1) |-> raw(first + i - 1).p]

RECURSIVE SumTo(_, _)
SumTo(f(_), n) == IF n = 0 THEN 0 ELSE SumTo(f, n - 1) + f(n)

\* g is the weighted mean of the samples kept, the i-th oldest weighted i
IsWeightedMean(g, kept) ==
    LET weight(i) == i
    IN  IF Len(kept) = 0 THEN g = <<0, 0, 0>>
        ELSE \A c \in 1..3 :
                LET term(i) == i * kept[i][c]
                IN  g[c] * SumTo(weight, Len(kept)) = SumTo(term, Len(kept))

(* C14: after any sequence of add calls (and resets) the history holds     *)
(* exactly the last min(n, 5) samples pushed since the last reset, in      *)
(* order, and the smoothed point is, per coordinate, sum(i * sample_i) /   *)
(* sum(i) over them, the i-th oldest weighted i; with an empty history it  *)
(* is (0, 0, 0).                                                           *)
C14_FilterWindowAndMean ==
    LET kept == Retained(LeftRaw, Len(rawLog))
    IN  /\ Len(leftFilter) <= windowSize
        /\ leftFilter = kept
        /\ IsWeightedMean(getSmoothed(leftFilter), kept)

C14_Witness ==
    /\ Len(rawLog) = 7
    /\ \A j \in 1..7 : LeftRaw(j).present
    /\ LeftRaw(1).p # LeftRaw(3).p
    /\ Len(leftFilter) = windowSize
    /\ leftFilter[1] # leftFilter[2] /\ leftFilter[2] # leftFilter[5]
    /\ getSmoothed(leftFilter) # leftFilter[5]

----------------------------------------------------------------------------
(* Reading what the tracker published *)

PublishedAt(hand) == <<hand.x, hand.y, hand.z>>

\* after frame n the filter with history hist, fed by raw, and the published hand
\* agree with the samples of the hand's current run of presence only
FreshAfterAbsence(raw(_), hist, hand) ==
    LET n == Len(rawLog)
    IN  n >= 1 =>
          /\ ~raw(n).present => (hist = <<>> /\ ~hand.present)
          /\ raw(n).present =>
                /\ hand.present
                /\ hist = Retained(raw, n)
                /\ IsWeightedMean(PublishedAt(hand), Retained(raw, n))
          /\ (raw(n).present /\ (n = 1 \/ ~raw(n - 1).present))
                => PublishedAt(hand) = raw(n).p

(* C15: for each hand independently, after a tracking frame in which the   *)
(* hand is not detected its filter history is empty; the first position    *)
(* published after it reappears equals that frame's raw position, and      *)
(* every published position is the weighted mean of raw positions of the   *)
(* hand's current run of presence only.                                    *)
C15_NoStaleHistory ==
    /\ FreshAfterAbsence(LeftRaw, leftFilter, handData.left)
    /\ FreshAfterAbsence(RightRaw, rightFilter, handData.right)

C15_Witness ==
    LET n == Len(rawLog)
    IN  /\ n >= 4
        /\ LeftRaw(n - 3).present /\ LeftRaw(n - 2).present
        /\ LeftRaw(n - 3).p # LeftRaw(n - 2).p
        /\ ~LeftRaw(n - 1).present /\ RightRaw(n - 1).present
        /\ LeftRaw(n).present /\ LeftRaw(n).p # LeftRaw(n - 2).p
        /\ PublishedAt(handData.left) = LeftRaw(n).p
        /\ Len(rightFilter) = 2

(* C16: after a tracking frame with no hands detected the published        *)
(* gesture is IDLE on that frame, and the classifier is as a fresh one in  *)
(* everything classification reads: empty pinch window, pending candidate  *)
(* IDLE with count 0, committed gesture IDLE.                              *)
C16_NoHandsResets ==
    (Len(frameLog) > 0 /\ IsReset(LastFrame))
    => /\ handData.gesture = "IDLE"
       /\ handData = initialHandData
       /\ pinchHistory = <<>>
       /\ pendingGesture = "IDLE" /\ pendingCount = 0
       /\ currentGesture = "IDLE"

C16_Witness ==
    LET n == Len(frameLog)
    IN  /\ n >= 3
        /\ IsReset(LastFrame)
        /\ frameLog[n - 1].ret = "COMPRESS"
        /\ frameLog[n - 2].cand # "NONE"
        /\ handData.gesture = "IDLE"
        /\ pinchHistory = <<>>

----------------------------------------------------------------------------
(* The first-match table, read from the trace *)

\* the oldest of the last ReleaseWindow frames of the window had a pinch and the
\* newest has none; the window holds the frames since the last no-hands frame
ReleaseEdgeAt(n) ==
    /\ n - ReleaseWindow + 1 >= EpochStart
    /\ PinchedFrame(frameLog[n - ReleaseWindow + 1])
    /\ ~PinchedFrame(frameLog[n])

TableCandidate(n) ==
    LET e == frameLog[n]
        bothOpen == e.left.isOpen /\ e.right.isOpen
    IN  IF BothPresent(e)
        THEN CASE PinchedFrame(e) -> "COMPRESS"
               [] ~PinchedFrame(e) /\ bothOpen /\ ReleaseEdgeAt(n) -> "EXPAND"
               [] ~PinchedFrame(e) /\ bothOpen /\ ~ReleaseEdgeAt(n) /\ InBand(e) -> "CIRCLE"
               [] ~PinchedFrame(e) /\ ~(bothOpen /\ (ReleaseEdgeAt(n) \/ InBand(e)))
                     /\ e.distSq < Sq(CollapseMax) -> "COLLAPSE"
               [] OTHER -> "IDLE"
        ELSE IF PinchedFrame(e) THEN "COMPRESS" ELSE "IDLE"

----------------------------------------------------------------------------
(* Reading the result of generateParticles *)

Called == generated.returned

(* C18: generateParticles(count, kind) returns an array of exactly 3*count *)
(* entries, every one of them written, for every shape kind of the enum    *)
(* and for a kind outside it; a kind outside the enum is generated with    *)
(* the sphere sampler of radius 10, exactly as the Sphere kind is.         *)
C18_LengthAndDefault ==
    Called =>
      /\ Len(generated.positions) = 3 * generated.count
      /\ \A k \in 1..Len(generated.positions) : generated.positions[k].written
      /\ generated.type \notin ShapeTypes =>
            /\ \A i \in 1..generated.count : generated.samplers[i] = "randomInSphere(10)"
            /\ generated.positions
                  = generateParticles(generated.count, "Sphere", generated.draws)

C18_Witness ==
    /\ Called
    /\ generated.type \notin ShapeTypes
    /\ generated.count >= 2
    /\ Len(generated.positions) = 3 * generated.count
    /\ generated.positions[3 * generated.count].v # 0
    /\ generated.positions[1].v = 0 /\ generated.positions[1].written

----------------------------------------------------------------------------
(* The Saturn split *)

\* the variates that take the same branch of line 65 as u does
SameBranch(u) == {v \in Variates : (v * 10 > 4 * 20) = (u * 10 > 4 * 20)}

\* the branch of u is taken with probability 0.6
LargerRegion(u) == 10 * Cardinality(SameBranch(u)) = 6 * Cardinality(Variates)

(* C19: for the Saturn shape a particle is placed on the ring exactly when *)
(* its variate falls in the region of probability 0.6, and inside the      *)
(* planet-body sphere of radius 4 when it falls in the remaining region of *)
(* probability 0.4.                                                        *)
C19_RingOnLargerRegion ==
    (Called /\ generated.type = "Saturn") =>
      \A i \in 1..generated.count :
         /\ generated.samplers[i] \in {"ring", "randomInSphere(4)"}
         /\ (generated.samplers[i] = "ring") = LargerRegion(generated.draws[i].u)

----------------------------------------------------------------------------
(* The idle ensemble *)

(* C20: for an ensemble freshly initialised by the simulator and run with  *)
(* gesture IDLE and no hands at dt = 1/60, the mean distance of the        *)
(* particles to their rest positions after the ticks is strictly smaller   *)
(* than the mean distance at initialisation.                               *)
C20_IdleEnsembleRelaxes ==
    (mounted /\ ticks = MaxRelaxTicks /\ NoHandsIdle(handData) /\ config.count > 0)
    => TotalDistance(positions, originalPositions) < initialDistance

----------------------------------------------------------------------------
(* The primary regime of a tick *)

PrimaryRegimes == {"PLANET", "COMPRESS", "EXPAND", "HANDFIELD"}

\* the last tick read the snapshot that is in the slot now; simState is the mode
\* state its particle loop ran with
TickSeen == mounted /\ ticks > 0 /\ snapshotRead /\ lastTick.gesture = handData.gesture

AnyPinched(d) == PinchedOf(d.left) \/ PinchedOf(d.right)

\* the conditions under which each regime's block is entered, taken one by one
RegimesEntered(s, d) ==
    {r \in PrimaryRegimes :
        \/ r = "PLANET" /\ s.planetMode /\ d.gesture = "CIRCLE"
        \/ r = "COMPRESS" /\ d.gesture = "COMPRESS" /\ AnyPinched(d)
        \/ r = "EXPAND" /\ d.gesture = "EXPAND"
        \/ r = "HANDFIELD" /\ d.gesture = "IDLE"}

(* C21 as stated: in every tick exactly one primary regime among planet    *)
(* aggregation, compress, expand and idle hand field is applied, never two *)
(* and never none.                                                         *)
C21_ExactlyOneRegime ==
    TickSeen => Regime(simState, handData) \in PrimaryRegimes

(* C21: in every tick at most one primary regime is applied.  None is      *)
(* applied when the gesture is COLLAPSE or CONTROL, or COMPRESS with no    *)
(* pinched hand; in every other tick exactly one is, and a CIRCLE tick     *)
(* always applies planet aggregation.                                      *)
C21_AtMostOneRegime ==
    TickSeen =>
      LET r == Regime(simState, handData)
          g == handData.gesture
      IN  /\ Cardinality(RegimesEntered(simState, handData)) <= 1
          /\ RegimesEntered(simState, handData) = {r} \cap PrimaryRegimes
          /\ (r = "NONE") = (g \in {"COLLAPSE", "CONTROL"}
                              \/ (g = "COMPRESS" /\ ~AnyPinched(handData)))
          /\ g = "CIRCLE" => r = "PLANET"

C21_Witness ==
    /\ TickSeen
    /\ ticks >= 2
    /\ handData.gesture = "COMPRESS" /\ ~AnyPinched(handData)
    /\ handData.left.present /\ handData.right.present
    /\ Regime(simState, handData) = "NONE"
    /\ lastTick.planetBefore

----------------------------------------------------------------------------
(* The explosion window *)

LastExplosion == explosions[Len(explosions)]

(* C22: the explosion overlay is active on a tick only if explosionTime    *)
(* was updated by a COLLAPSE tick less than 2.0 units of simulation time   *)
(* before it (0 < time - explosionTime < 2.0); explosionTime is updated by *)
(* COLLAPSE ticks only, so the overlay is inactive initially and as long   *)
(* as no COLLAPSE tick has run; while it is active the shape-return term   *)
(* is not applied.                                                         *)
C22_ExplosionWindow ==
    /\ ticks = 0 => (~lastTick.isExploding /\ explosions = <<>>)
    /\ explosions = <<>> =>
          (~lastTick.isExploding /\ simState.explosionTime = InitialExplosionTime)
    /\ ticks > 0 =>
          /\ lastTick.isExploding =
                (/\ explosions # <<>>
                 /\ 0 < lastTick.time - LastExplosion
                 /\ lastTick.time - LastExplosion < 2 * TimeScale)
          /\ explosions # <<>> => simState.explosionTime = LastExplosion
          /\ simState.explosionTime # lastTick.explosionBefore =>
                (lastTick.gesture = "COLLAPSE" /\ LastExplosion = lastTick.time)
          /\ lastTick.isExploding =>
                ~ShapeHolds(simState, lastTick.gesture, lastTick.isExploding)

\* an IDLE tick, outside planet mode, on which the overlay is still active 1.6 s
\* after the COLLAPSE tick that started it
C22_Witness ==
    /\ ticks >= 2
    /\ lastTick.isExploding
    /\ lastTick.gesture = "IDLE" /\ ~simState.planetMode
    /\ Len(explosions) = 1
    /\ lastTick.time - LastExplosion > ExplosionCooldown

----------------------------------------------------------------------------
(* The quick exit from COMPRESS *)

\* frame n left COMPRESS through the branch of lines 596-600: its candidate is not
\* an instant one and has not been the candidate for confirmationThreshold frames
QuickExitAt(n) ==
    /\ frameLog[n].prev = "COMPRESS" /\ frameLog[n].ret # "COMPRESS"
    /\ ~IsReset(frameLog[n])
    /\ frameLog[n].cand \notin InstantGestures
    /\ CandRun(n) < confirmationThreshold

(* C23: when COMPRESS is committed and two consecutive frames then have no *)
(* pinched hand and the same candidate, detectGesture leaves COMPRESS on   *)
(* the second of them at the latest, before the 4-frame threshold; the     *)
(* gesture it switches to through this quick exit is IDLE or EXPAND.  The  *)
(* code violates the second part: the quick exit commits the pending       *)
(* candidate, which can be CIRCLE.                                         *)
C23_QuickExitToIdleOrExpand ==
    LET n == Len(frameLog)
    IN  /\ (n >= 2 /\ frameLog[n - 1].prev = "COMPRESS"
              /\ ~IsReset(LastFrame) /\ ~IsReset(frameLog[n - 1])
              /\ ~PinchedFrame(LastFrame) /\ ~PinchedFrame(frameLog[n - 1])
              /\ LastFrame.cand = frameLog[n - 1].cand)
           => LastFrame.ret # "COMPRESS"
        /\ (n >= 1 /\ QuickExitAt(n)) => LastFrame.ret \in {"IDLE", "EXPAND"}

----------------------------------------------------------------------------
(* The single-slot snapshot *)

\* the snapshot of one tracking frame, rebuilt from what the frame logged
FrameSnapshot(e) ==
    LET both == e.left.present /\ e.right.present
    IN  [left |-> e.left, right |-> e.right, distSq |-> e.distSq,
         centerX |-> IF both THEN (e.left.x + e.right.x) \div 2 ELSE 0,
         centerY |-> IF both THEN (e.left.y + e.right.y) \div 2 ELSE 0,
         centerZ |-> IF both THEN (e.left.z + e.right.z) \div 2 ELSE 0,
         rotation |-> IF both THEN Atan2(e.right.y - e.left.y, e.right.x - e.left.x) ELSE 0,
         gesture |-> e.ret]

\* what the slot holds: the initial snapshot, then the last frame's, whole
SlotIsOneFrame ==
    handData = IF frameLog = <<>> THEN initialHandData ELSE FrameSnapshot(LastFrame)

TickStep == ticks' = ticks + 1

(* C24: the slot always holds the whole snapshot of one tracking frame     *)
(* (the last one, or the initial snapshot); a simulator tick reads it      *)
(* once, leaves it in place and computes its mode step from that one       *)
(* snapshot; a tick is never blocked, and when no snapshot was published   *)
(* since the previous tick it runs again with the same snapshot.           *)
C24_SingleSlot ==
    /\ [](SlotIsOneFrame)
    /\ []((mounted /\ ticks < MaxSystemTicks) => ENABLED SystemTick)
    /\ [][TickStep =>
             /\ handData' = handData
             /\ snapshotRead'
             /\ lastTick'.gesture = handData.gesture
             /\ simState' = ModeStep(simState, handData, lastTick'.delta)
             /\ snapshotRead => lastTick'.gesture = lastTick.gesture]_vars

\* CIRCLE was returned by the last frame only, and two ticks have read it: the
\* first entered planet mode, the second ran on the same, by then stale, snapshot
C24_Witness ==
    LET n == Len(frameLog)
    IN  /\ n >= confirmationThreshold
        /\ LastFrame.ret = "CIRCLE"
        /\ \A j \in 1..(n - 1) : frameLog[j].ret # "CIRCLE"
        /\ ticks = 2 /\ snapshotRead
        /\ lastTick.gesture = "CIRCLE" /\ lastTick.planetBefore
        /\ handData = FrameSnapshot(LastFrame)

----------------------------------------------------------------------------
(* The CONTROL gesture *)

(* C25: detectGesture never returns CONTROL, so with the tracker as the    *)
(* only producer of snapshots no tick reads CONTROL; targetScale,          *)
(* targetRotationY and targetRotationZ keep their initial values 1, 0, 0,  *)
(* currentScale stays 1 and the current rotations stay 0, so the           *)
(* interaction radius 12 / currentScale is always defined.                 *)
C25_NoControl ==
    /\ currentGesture # "CONTROL" /\ pendingGesture # "CONTROL"
    /\ handData.gesture # "CONTROL"
    /\ \A j \in 1..Len(frameLog) : frameLog[j].ret # "CONTROL" /\ frameLog[j].cand # "CONTROL"
    /\ lastTick.gesture # "CONTROL"
    /\ simState.targetScale = 1000
    /\ simState.targetRotationY = 0 /\ simState.targetRotationZ = 0
    /\ simState.currentScale = 1000
    /\ simState.currentRotationY = 0 /\ simState.currentRotationZ = 0
    /\ simState.currentScale # 0

\* two ticks have run, the last on a CIRCLE snapshot of two hands set apart,
\* after a COMPRESS frame
C25_Witness ==
    /\ ticks = 2
    /\ lastTick.gesture = "CIRCLE"
    /\ handData.distSq > Sq(CircleMin)
    /\ \E j \in 1..Len(frameLog) : frameLog[j].ret = "COMPRESS"
    /\ simState.planetMode /\ simState.time > 1
    /\ simState.currentScale = 1000

----------------------------------------------------------------------------
(* Planet mode under IDLE *)

NoHands(d) == ~d.left.present /\ ~d.right.present

----------------------------------------------------------------------------
(* Holding EXPAND and COLLAPSE *)

\* frame k neither has an instant-commit candidate nor completes 4 consecutive
\* frames of one candidate
Unconfirmed(k) ==
    /\ frameLog[k].cand \notin InstantGestures
    /\ CandRun(k) < confirmationThreshold

(* C27 as stated: after EXPAND or COLLAPSE has been committed, the         *)
(* committed gesture stays unchanged on every later frame until a frame's  *)
(* candidate is an instant-commit gesture or one candidate has persisted   *)
(* for 4 consecutive frames.                                               *)
C27_HeldUntilConfirmed ==
    \A i \in 1..Len(frameLog) : \A j \in i..Len(frameLog) :
        (/\ frameLog[i].ret \in {"EXPAND", "COLLAPSE"}
         /\ \A k \in (i + 1)..j : Unconfirmed(k))
        => frameLog[j].ret = frameLog[i].ret

(* C27 (amended): the same, for later frames on which at least one hand is *)
(* detected; a frame with no hands resets the classifier and returns IDLE  *)
(* at once.  In particular, under candidates alternating between CIRCLE    *)
(* and IDLE the committed gesture remains EXPAND or COLLAPSE.              *)
C27_HeldWhileHandsSeen ==
    /\ \A i \in 1..Len(frameLog) : \A j \in i..Len(frameLog) :
          (/\ frameLog[i].ret \in {"EXPAND", "COLLAPSE"}
           /\ \A k \in (i + 1)..j : Unconfirmed(k) /\ ~IsReset(frameLog[k]))
          => frameLog[j].ret = frameLog[i].ret
    /\ (Len(frameLog) > 0 /\ IsReset(LastFrame)) => LastFrame.ret = "IDLE"

\* COLLAPSE committed, then candidates alternating CIRCLE, IDLE, CIRCLE, IDLE
C27_Witness ==
    LET n == Len(frameLog)
    IN  /\ n >= 5
        /\ frameLog[n - 4].cand = "COLLAPSE" /\ frameLog[n - 4].ret = "COLLAPSE"
        /\ frameLog[n - 3].cand = "CIRCLE" /\ frameLog[n - 2].cand = "IDLE"
        /\ frameLog[n - 1].cand = "CIRCLE" /\ frameLog[n].cand = "IDLE"
        /\ LastFrame.ret = "COLLAPSE" /\ currentGesture = "COLLAPSE"

----------------------------------------------------------------------------
(* The centre of a snapshot with fewer than two hands *)

\* the world-space point that line 117 hands to getLocalHandPos; the compress
\* block (lines 267-269) pulls every particle toward its image centerPos
CompressTarget(d) == <<d.centerX, d.centerY, d.centerZ>>

HandPosition(h) == <<h.x, h.y, h.z>>

OneHandAbsent(d) == ~d.left.present \/ ~d.right.present

----------------------------------------------------------------------------
(* Repeated explosions under a sustained COLLAPSE *)

\* a tick that sets explosionTime when an earlier tick had set it already
Retriggers ==
    /\ TickStep
    /\ explosions # <<>>
    /\ simState'.explosionTime # simState.explosionTime

\* the tick and every tick since the previous reset read COLLAPSE: the previous
\* tick read COLLAPSE, and the reset was made by it or by the tick before it
SustainedCollapse ==
    /\ handData.gesture = "COLLAPSE"
    /\ lastTick.gesture = "COLLAPSE"
    /\ simState.explosionTime \in {lastTick.time, lastTick.time - lastTick.delta}

\* lines 150-151 for the explosion that the tick replaces
PreviousStillActive == isExploding(simState'.time, simState.explosionTime)

\* line 145-146: a COLLAPSE tick sets explosionTime to the current time exactly
\* when more than the cooldown has elapsed since it was last set
CollapseResets ==
    TickStep =>
        simState'.explosionTime =
            IF /\ handData.gesture = "COLLAPSE"
               /\ simState'.time - simState.explosionTime > ExplosionCooldown
            THEN simState'.time
            ELSE simState.explosionTime

\* the wavefront radius explosionAge * 25 (line 340) is 0 after the reset
WavefrontRestarts == simState'.time - simState'.explosionTime = 0

(* C29 as stated: while the snapshot gesture stays COLLAPSE, explosionTime *)
(* is reset again on the first tick at which more than 1.5 have elapsed    *)
(* since the previous reset, and such a re-trigger happens while the       *)
(* previous explosion is still active (its age is below 2.0) and restarts  *)
(* the wavefront at radius 0.                                              *)
C29_RetriggerWhileActive ==
    /\ [][CollapseResets]_vars
    /\ [][(Retriggers /\ SustainedCollapse) =>
              (PreviousStillActive /\ WavefrontRestarts)]_vars

\* half a second: the window less the cooldown
StallLimit == ExplosionWindow - ExplosionCooldown

(* C29 (amended): a COLLAPSE tick resets explosionTime exactly when more   *)
(* than 1.5 have elapsed since the previous reset, so a sustained COLLAPSE *)
(* explodes repeatedly, each re-trigger restarting the wavefront at radius *)
(* 0; the previous explosion is still active at the re-trigger when the    *)
(* tick's frame time is below 0.5 (2.0 - 1.5) and the previous tick read   *)
(* COLLAPSE too.                                                           *)
C29_RetriggerAfterCooldown ==
    /\ [][CollapseResets]_vars
    /\ [][Retriggers => WavefrontRestarts]_vars
    /\ [][(/\ Retriggers
           /\ handData.gesture = "COLLAPSE" /\ lastTick.gesture = "COLLAPSE"
           /\ lastTick'.delta < StallLimit) => PreviousStillActive]_vars

\* three COLLAPSE ticks: an explosion, a tick inside the cooldown, and a second
\* explosion 1.5 s and one frame after the first, inside its window
C29_Witness ==
    /\ ticks = 3
    /\ Len(explosions) = 2
    /\ lastTick.gesture = "COLLAPSE"
    /\ LastExplosion = lastTick.time
    /\ explosions[1] = lastTick.explosionBefore
    /\ lastTick.time - lastTick.explosionBefore > ExplosionCooldown
    /\ lastTick.time - lastTick.explosionBefore < ExplosionWindow
    /\ lastTick.delta < StallLimit
    /\ simState.explosionTime = simState.time
    /\ ~lastTick.isExploding

----------------------------------------------------------------------------
(* Bounded response to the CIRCLE pose *)

\* both hands present, open, not pinched, distance strictly between 5 and 18
PoseOf(e) == BothOpenUnpinched(e) /\ InBand(e)

\* the number of frames, up to the last one, on which the pose has been held
PoseRun ==
    LET n == Len(frameLog)
    IN  CHOOSE k \in 0..n :
            /\ \A j \in (n - k + 1)..n : PoseOf(frameLog[j])
            /\ k = n \/ ~PoseOf(frameLog[n - k])

(* C30: from any reachable classifier state, once every frame has both     *)
(* hands present, open, unpinched and between 5 and 18 apart, the          *)
(* candidate is EXPAND or CIRCLE on the first 3 such frames and CIRCLE     *)
(* from the 4th on, and detectGesture returns CIRCLE on the 7th such frame *)
(* and on every frame after it.                                            *)
C30_CircleBySeventhFrame ==
    /\ PoseRun >= 1 => LastFrame.cand \in {"EXPAND", "CIRCLE"}
    /\ PoseRun >= ReleaseWindow => LastFrame.cand = "CIRCLE"
    /\ PoseRun >= ReleaseWindow - 1 + confirmationThreshold =>
          (LastFrame.ret = "CIRCLE" /\ currentGesture = "CIRCLE")

\* the slowest case: a pinch on the frame before the pose, EXPAND on the first
\* three frames of the pose and still on the 6th, CIRCLE on the 7th
C30_Witness ==
    LET n == Len(frameLog)
    IN  /\ PoseRun = 7
        /\ n > 7 /\ PinchedFrame(frameLog[n - 7])
        /\ \A j \in (n - 6)..(n - 4) : frameLog[j].cand = "EXPAND"
        /\ frameLog[n - 1].ret = "EXPAND"
        /\ LastFrame.ret = "CIRCLE"

====
